---- MODULE Spec2Model ----
(***************************************************************************)
(* Verification model of oled-tools.                                       *)
(*                                                                         *)
(* Part I: the oscheck rule engine (oscheck/core/engine.py), the host      *)
(* facts it reads (oscheck/core/host.py) and the plugins that call it      *)
(* (oscheck/plugins/*.py).                                                 *)
(*                                                                         *)
(* Python objects (JSON rule nodes, attribute values) are records of one   *)
(* shape: ty is the Python type, n the number (bool: 0/1; float: tenths),  *)
(* s the characters of a str, items the entries of a list (k = "") or of   *)
(* a dict (k = key, in insertion order).                                   *)
(***************************************************************************)
EXTENDS Integers, Sequences, FiniteSets, TLC

----------------------------------------------------------------------------
(* Python values *)

JNone == [ty |-> "none", n |-> 0, s |-> <<>>, items |-> <<>>]
JBool(b) == [ty |-> "bool", n |-> IF b THEN 1 ELSE 0, s |-> <<>>, items |-> <<>>]
JInt(i) == [ty |-> "int", n |-> i, s |-> <<>>, items |-> <<>>]
JFloat(t) == [ty |-> "float", n |-> t, s |-> <<>>, items |-> <<>>]
JStr(cs) == [ty |-> "str", n |-> 0, s |-> cs, items |-> <<>>]
JList(vs) == [ty |-> "list", n |-> 0, s |-> <<>>,
              items |-> [i \in 1..Len(vs) |-> [k |-> "", v |-> vs[i]]]]
JDict(kvs) == [ty |-> "dict", n |-> 0, s |-> <<>>, items |-> kvs]
KV(key, val) == [k |-> key, v |-> val]
JTrue == JBool(TRUE)
JFalse == JBool(FALSE)

(* key in d *)
HasKey(d, key) == \E i \in 1..Len(d.items) : d.items[i].k = key
(* d[key] *)
Get(d, key) == d.items[CHOOSE i \in 1..Len(d.items) : d.items[i].k = key].v

(* isinstance(x, int): bool is a subclass of int *)
IsIntLike(x) == x.ty \in {"int", "bool"}
(* isinstance(x, (int, float)) *)
IsNumber(x) == x.ty \in {"int", "bool", "float"}
(* the value of a number in tenths, so that ints and floats compare *)
Tenths(x) == IF x.ty = "float" THEN x.n ELSE x.n * 10

(* Python ==: numbers compare by value across bool/int/float, everything   *)
(* else by type and content; dicts compare without regard to key order.    *)
RECURSIVE PyEq(_, _)
PyEq(a, b) ==
    IF IsNumber(a) /\ IsNumber(b) THEN Tenths(a) = Tenths(b)
    ELSE IF a.ty # b.ty THEN FALSE
    ELSE IF a.ty = "none" THEN TRUE
    ELSE IF a.ty = "str" THEN a.s = b.s
    ELSE IF a.ty = "list" THEN
        /\ Len(a.items) = Len(b.items)
        /\ \A i \in 1..Len(a.items) : PyEq(a.items[i].v, b.items[i].v)
    ELSE
        /\ Len(a.items) = Len(b.items)
        /\ \A i \in 1..Len(a.items) :
              /\ HasKey(b, a.items[i].k)
              /\ PyEq(a.items[i].v, Get(b, a.items[i].k))

----------------------------------------------------------------------------
(* Python strings, as sequences of one-character strings *)

Digits == <<"0", "1", "2", "3", "4", "5", "6", "7", "8", "9">>
DigitSet == {Digits[i] : i \in 1..10}
DigitVal(c) == (CHOOSE i \in 1..10 : Digits[i] = c) - 1
LowerSet == {"a", "b", "c", "d", "e", "f", "g", "h", "i", "j", "k", "l", "m",
             "n", "o", "p", "q", "r", "s", "t", "u", "v", "w", "x", "y", "z"}
UpperSet == {"A", "B", "C", "D", "E", "F", "G", "H", "I", "J", "K", "L", "M",
             "N", "O", "P", "Q", "R", "S", "T", "U", "V", "W", "X", "Y", "Z"}
IdStart == LowerSet \cup UpperSet \cup {"_"}
IdChar == IdStart \cup DigitSet
Blank == {" "}

(* needle in hay, for str *)
Contains(hay, needle) ==
    \E i \in 0..(Len(hay) - Len(needle)) :
        SubSeq(hay, i + 1, i + Len(needle)) = needle

(* s.strip() *)
RECURSIVE LStrip(_)
LStrip(s) == IF s # <<>> /\ Head(s) \in Blank THEN LStrip(Tail(s)) ELSE s
RECURSIVE RStrip(_)
RStrip(s) == IF s # <<>> /\ s[Len(s)] \in Blank
             THEN RStrip(SubSeq(s, 1, Len(s) - 1)) ELSE s
Strip(s) == RStrip(LStrip(s))

AllDigits(s) == s # <<>> /\ \A i \in 1..Len(s) : s[i] \in DigitSet
RECURSIVE DigitsVal(_)
DigitsVal(s) == IF s = <<>> THEN 0
                ELSE DigitsVal(SubSeq(s, 1, Len(s) - 1)) * 10 + DigitVal(s[Len(s)])
RECURSIVE NatStr(_)
NatStr(i) == IF i < 10 THEN <<Digits[i + 1]>>
             ELSE NatStr(i \div 10) \o <<Digits[(i % 10) + 1]>>
IntStr(i) == IF i < 0 THEN <<"-">> \o NatStr(-i) ELSE NatStr(i)

(* the unsigned part of a signed literal, and its sign *)
Unsigned(s) == IF s # <<>> /\ Head(s) \in {"+", "-"} THEN Tail(s) ELSE s
Sign(s) == IF s # <<>> /\ Head(s) = "-" THEN -1 ELSE 1

(* int(s): surrounding blanks, an optional sign, decimal digits; anything  *)
(* else is a ValueError                                                    *)
IntOk(s) == AllDigits(Unsigned(Strip(s)))
IntOf(s) == Sign(Strip(s)) * DigitsVal(Unsigned(Strip(s)))

(* float(s) for the literals digits "." digit: the value in tenths; other  *)
(* strings are a ValueError                                                *)
DotAt(s) == CHOOSE i \in 1..Len(s) : s[i] = "."
FloatOk(s) ==
    LET u == Unsigned(Strip(s)) IN
    /\ "." \in {u[i] : i \in 1..Len(u)}
    /\ LET d == DotAt(u) IN
       /\ AllDigits(SubSeq(u, 1, d - 1))
       /\ Len(u) - d <= 1
       /\ \A i \in (d + 1)..Len(u) : u[i] \in DigitSet
FloatOf(s) ==
    LET u == Unsigned(Strip(s))
        d == DotAt(u)
    IN Sign(Strip(s)) * (DigitsVal(SubSeq(u, 1, d - 1)) * 10
                         + DigitsVal(SubSeq(u, d + 1, Len(u))))

(* str(x), and repr(x) for the members of a list *)
RECURSIVE PyStr(_, _)
PyStr(x, quoted) ==
    IF x.ty = "none" THEN <<"N", "o", "n", "e">>
    ELSE IF x.ty = "bool" THEN
        IF x.n = 1 THEN <<"T", "r", "u", "e">> ELSE <<"F", "a", "l", "s", "e">>
    ELSE IF x.ty = "int" THEN IntStr(x.n)
    ELSE IF x.ty = "float" THEN
        (IF x.n < 0 THEN <<"-">> ELSE <<>>)
        \o NatStr((IF x.n < 0 THEN -x.n ELSE x.n) \div 10) \o <<".">>
        \o NatStr((IF x.n < 0 THEN -x.n ELSE x.n) % 10)
    ELSE IF x.ty = "str" THEN
        IF quoted THEN <<"'">> \o x.s \o <<"'">> ELSE x.s
    ELSE LET open == IF x.ty = "list" THEN "[" ELSE "{"
             close == IF x.ty = "list" THEN "]" ELSE "}"
             F[i \in 0..Len(x.items)] ==
                 IF i = 0 THEN <<>>
                 ELSE F[i - 1] \o (IF i > 1 THEN <<",", " ">> ELSE <<>>)
                      \o PyStr(x.items[i].v, TRUE)
         IN <<open>> \o F[Len(x.items)] \o <<close>>
Str(x) == PyStr(x, FALSE)

----------------------------------------------------------------------------
(* engine.py: eval_expr *)

(* re.sub over the tokens $name, name = [a-zA-Z_][a-zA-Z0-9_]*: the length *)
(* of the longest name at the head of s                                    *)
RECURSIVE IdRun(_)
IdRun(s) == IF s # <<>> /\ Head(s) \in IdChar THEN 1 + IdRun(Tail(s)) ELSE 0

(* replace_var: the global variable first, the local one ("value") only   *)
(* when the global lookup gave the empty string                           *)
replace_var(name, value, gv) ==
    LET ret == IF name \in DOMAIN gv THEN Str(gv[name]) ELSE <<>>
    IN IF ret = <<>>
       THEN (IF name = <<"v", "a", "l", "u", "e">> THEN Str(value) ELSE <<>>)
       ELSE ret

RECURSIVE Substitute(_, _, _)
Substitute(e, value, gv) ==
    IF e = <<>> THEN <<>>
    ELSE IF Head(e) = "$" /\ Len(e) >= 2 /\ e[2] \in IdStart
    THEN LET len == IdRun(Tail(e))
         IN replace_var(SubSeq(e, 2, 1 + len), value, gv)
            \o Substitute(SubSeq(e, 2 + len, Len(e)), value, gv)
    ELSE <<Head(e)>> \o Substitute(Tail(e), value, gv)

(* ast.parse(expr, mode="eval") for the arithmetic fragment of Python's    *)
(* expression grammar: decimal int and float literals, names, parentheses, *)
(* the unary operators + - ~ and the binary operators below.  Every other  *)
(* text is reported as a SyntaxError, and so is text that begins with a    *)
(* blank ("unexpected indent").  Floats are carried to one decimal.        *)
Tok(kind, sym, val) == [k |-> kind, t |-> sym, v |-> val]
TwoCharOps == {<<"*", "*">>, <<"/", "/">>, <<"<", "<">>, <<">", ">">>}
OneCharOps == {"+", "-", "*", "/", "%", "&", "|", "^", "~", "@", "(", ")"}
OpName(cs) == IF cs = <<"*", "*">> THEN "**"
              ELSE IF cs = <<"/", "/">> THEN "//"
              ELSE IF cs = <<"<", "<">> THEN "<<"
              ELSE IF cs = <<">", ">">> THEN ">>"
              ELSE cs[1]
RECURSIVE DigitRun(_)
DigitRun(s) == IF s # <<>> /\ Head(s) \in DigitSet THEN 1 + DigitRun(Tail(s)) ELSE 0

RECURSIVE Lex(_)
Lex(s) ==
    IF s = <<>> THEN <<>>
    ELSE IF Head(s) \in Blank THEN Lex(Tail(s))
    ELSE IF Head(s) \in DigitSet THEN
        LET d == DigitRun(s)
            rest == SubSeq(s, d + 1, Len(s))
        IN IF rest # <<>> /\ Head(rest) = "."
           THEN LET f == DigitRun(Tail(rest))
                    after == SubSeq(rest, f + 2, Len(rest))
                    frac == IF f = 0 THEN 0 ELSE DigitVal(rest[2])
                IN IF after # <<>> /\ Head(after) \in IdStart
                   THEN <<Tok("bad", "", JNone)>>
                   ELSE <<Tok("num", "", JFloat(DigitsVal(SubSeq(s, 1, d)) * 10 + frac))>>
                        \o Lex(after)
           ELSE IF rest # <<>> /\ Head(rest) \in IdStart
           THEN <<Tok("bad", "", JNone)>>
           ELSE <<Tok("num", "", JInt(DigitsVal(SubSeq(s, 1, d))))>> \o Lex(rest)
    ELSE IF Head(s) = "." /\ Len(s) >= 2 /\ s[2] \in DigitSet THEN
        LET f == DigitRun(Tail(s))
            after == SubSeq(s, f + 2, Len(s))
        IN IF after # <<>> /\ Head(after) \in IdStart
           THEN <<Tok("bad", "", JNone)>>
           ELSE <<Tok("num", "", JFloat(DigitVal(s[2])))>> \o Lex(after)
    ELSE IF Head(s) \in IdStart THEN
        LET len == IdRun(s)
        IN <<Tok("name", "", JStr(SubSeq(s, 1, len)))>> \o Lex(SubSeq(s, len + 1, Len(s)))
    ELSE IF Len(s) >= 2 /\ SubSeq(s, 1, 2) \in TwoCharOps
    THEN <<Tok("op", OpName(SubSeq(s, 1, 2)), JNone)>> \o Lex(SubSeq(s, 3, Len(s)))
    ELSE IF Head(s) \in OneCharOps
    THEN <<Tok("op", Head(s), JNone)>> \o Lex(Tail(s))
    ELSE <<Tok("bad", "", JNone)>>

Node(kind, o, val, ks) == [k |-> kind, op |-> o, v |-> val, kids |-> ks]
NoNode == Node("None", "", JNone, <<>>)
PFail == [ok |-> FALSE, node |-> NoNode, pos |-> 0]
POk(nd, p) == [ok |-> TRUE, node |-> nd, pos |-> p]
IsOp(ts, i, syms) == i <= Len(ts) /\ ts[i].k = "op" /\ ts[i].t \in syms

(* binary operators by binding strength, weakest first; all associate left *)
BinLevel(sym) ==
    CASE sym = "|" -> 1
      [] sym = "^" -> 2
      [] sym = "&" -> 3
      [] sym \in {"<<", ">>"} -> 4
      [] sym \in {"+", "-"} -> 5
      [] sym \in {"*", "/", "//", "%", "@"} -> 6
      [] OTHER -> 0
TopLevel == 7

RECURSIVE ParseLevel(_, _, _), ParseRest(_, _, _), ParseFactor(_, _),
          ParsePower(_, _), ParseAtom(_, _)
ParseLevel(ts, i, lvl) ==
    IF lvl = TopLevel THEN ParseFactor(ts, i)
    ELSE LET l == ParseLevel(ts, i, lvl + 1)
         IN IF l.ok THEN ParseRest(ts, l, lvl) ELSE l
ParseRest(ts, l, lvl) ==
    IF l.pos <= Len(ts) /\ ts[l.pos].k = "op" /\ BinLevel(ts[l.pos].t) = lvl
    THEN LET r == ParseLevel(ts, l.pos + 1, lvl + 1)
         IN IF r.ok
            THEN ParseRest(ts, POk(Node("BinOp", ts[l.pos].t, JNone,
                                        <<l.node, r.node>>), r.pos), lvl)
            ELSE r
    ELSE l
ParseFactor(ts, i) ==
    IF IsOp(ts, i, {"+", "-", "~"})
    THEN LET r == ParseFactor(ts, i + 1)
         IN IF r.ok THEN POk(Node("UnaryOp", ts[i].t, JNone, <<r.node>>), r.pos)
            ELSE r
    ELSE ParsePower(ts, i)
ParsePower(ts, i) ==
    LET a == ParseAtom(ts, i)
    IN IF a.ok /\ IsOp(ts, a.pos, {"**"})
       THEN LET r == ParseFactor(ts, a.pos + 1)
            IN IF r.ok THEN POk(Node("BinOp", "**", JNone, <<a.node, r.node>>), r.pos)
               ELSE r
       ELSE a
ParseAtom(ts, i) ==
    IF i > Len(ts) THEN PFail
    ELSE IF ts[i].k = "num" THEN POk(Node("Num", "", ts[i].v, <<>>), i + 1)
    ELSE IF ts[i].k = "name" THEN POk(Node("Name", "", ts[i].v, <<>>), i + 1)
    ELSE IF IsOp(ts, i, {"("})
    THEN LET e == ParseLevel(ts, i + 1, 1)
         IN IF e.ok /\ IsOp(ts, e.pos, {")"}) THEN POk(e.node, e.pos + 1) ELSE PFail
    ELSE PFail

ast_parse(text) ==
    LET ts == Lex(text)
        r == ParseLevel(ts, 1, 1)
    IN IF /\ ~(text # <<>> /\ Head(text) \in Blank)
          /\ \A i \in 1..Len(ts) : ts[i].k # "bad"
          /\ r.ok
          /\ r.pos = Len(ts) + 1
       THEN r ELSE PFail

(* Python integer arithmetic *)
FloorDiv(a, b) == IF b > 0 THEN a \div b ELSE (-a) \div (-b)
PyMod(a, b) == a - b * FloorDiv(a, b)
RECURSIVE IntPow(_, _)
IntPow(a, b) == IF b = 0 THEN 1 ELSE a * IntPow(a, b - 1)
RECURSIVE NatAnd(_, _)
NatAnd(a, b) == IF a = 0 \/ b = 0 THEN 0
                ELSE 2 * NatAnd(a \div 2, b \div 2) + (a % 2) * (b % 2)
RECURSIVE NatOr(_, _)
NatOr(a, b) == IF a = 0 THEN b ELSE IF b = 0 THEN a
               ELSE 2 * NatOr(a \div 2, b \div 2)
                    + (IF a % 2 = 1 \/ b % 2 = 1 THEN 1 ELSE 0)
(* x & y, x | y, x ^ y on two's-complement integers of unbounded width;    *)
(* ~x = -x - 1                                                             *)
Inv(x) == -x - 1
BitAnd(a, b) ==
    IF a >= 0 /\ b >= 0 THEN NatAnd(a, b)
    ELSE IF a >= 0 THEN a - NatAnd(a, Inv(b))
    ELSE IF b >= 0 THEN b - NatAnd(b, Inv(a))
    ELSE Inv(NatOr(Inv(a), Inv(b)))
BitOr(a, b) == a + b - BitAnd(a, b)
BitXor(a, b) == a + b - 2 * BitAnd(a, b)

(* a float (in tenths) to a whole non-negative power *)
RECURSIVE FloatPow(_, _)
FloatPow(ta, e) == IF e <= 0 THEN 10 ELSE FloorDiv(ta * FloatPow(ta, e - 1), 10)

(* the operators of VALID_OPS, by the token that ast.parse maps to them *)
ValidBinOps == {"+", "-", "*", "/", "//", "%", "**", "<<", ">>", "&", "|", "^"}
ValidUnaryOpsAndInvert == {"+", "-", "~"}
ValidUnaryOps == {"+", "-"}

ROk(val) == [ok |-> TRUE, v |-> val, err |-> ""]
RErr(e) == [ok |-> FALSE, v |-> JNone, err |-> e]

(* operator.add and the rest on int and float; floats are carried to one   *)
(* decimal                                                                 *)
ApplyBin(sym, a, b) ==
    LET fl == a.ty = "float" \/ b.ty = "float"
        ta == Tenths(a)
        tb == Tenths(b)
    IN CASE sym = "+" -> ROk(IF fl THEN JFloat(ta + tb) ELSE JInt(a.n + b.n))
         [] sym = "-" -> ROk(IF fl THEN JFloat(ta - tb) ELSE JInt(a.n - b.n))
         [] sym = "*" -> ROk(IF fl THEN JFloat(FloorDiv(ta * tb, 10)) ELSE JInt(a.n * b.n))
         [] sym = "/" -> IF tb = 0 THEN RErr("ZeroDivisionError")
                         ELSE ROk(JFloat(FloorDiv(ta * 10, tb)))
         [] sym = "//" -> IF tb = 0 THEN RErr("ZeroDivisionError")
                          ELSE ROk(IF fl THEN JFloat(FloorDiv(ta, tb) * 10)
                                   ELSE JInt(FloorDiv(a.n, b.n)))
         [] sym = "%" -> IF tb = 0 THEN RErr("ZeroDivisionError")
                         ELSE ROk(IF fl THEN JFloat(PyMod(ta, tb))
                                  ELSE JInt(PyMod(a.n, b.n)))
         [] sym = "**" -> IF fl THEN ROk(JFloat(FloatPow(ta, FloorDiv(tb, 10))))
                          ELSE IF b.n >= 0 THEN ROk(JInt(IntPow(a.n, b.n)))
                          ELSE IF a.n = 0 THEN RErr("ZeroDivisionError")
                          ELSE ROk(JFloat(FloorDiv(10, IntPow(a.n, -b.n))))
         [] sym \in {"<<", ">>"} ->
                IF fl THEN RErr("TypeError")
                ELSE IF b.n < 0 THEN RErr("ValueError")
                ELSE ROk(JInt(IF sym = "<<" THEN a.n * IntPow(2, b.n)
                              ELSE FloorDiv(a.n, IntPow(2, b.n))))
         [] sym \in {"&", "|", "^"} ->
                IF fl THEN RErr("TypeError")
                ELSE ROk(JInt(IF sym = "&" THEN BitAnd(a.n, b.n)
                              ELSE IF sym = "|" THEN BitOr(a.n, b.n)
                              ELSE BitXor(a.n, b.n)))
ApplyUnary(sym, a) ==
    IF sym = "-" THEN ROk([a EXCEPT !.n = -a.n]) ELSE ROk(a)

(* eval_node: ast.Num gives its number, BinOp and UnaryOp look their       *)
(* operator up in VALID_OPS (KeyError when it is not there) and apply it   *)
(* to the evaluated operands, any other node is a ValueError               *)
RECURSIVE eval_node(_)
eval_node(node) ==
    IF node.k = "Num" THEN ROk(node.v)
    ELSE IF node.k = "BinOp" THEN
        IF node.op \notin ValidBinOps THEN RErr("KeyError")
        ELSE LET l == eval_node(node.kids[1])
             IN IF ~l.ok THEN l
                ELSE LET r == eval_node(node.kids[2])
                     IN IF ~r.ok THEN r ELSE ApplyBin(node.op, l.v, r.v)
    ELSE IF node.k = "UnaryOp" THEN
        IF node.op \notin ValidUnaryOps THEN RErr("KeyError")
        ELSE LET o == eval_node(node.kids[1])
             IN IF ~o.ok THEN o ELSE ApplyUnary(node.op, o.v)
    ELSE RErr("ValueError")

(* eval_expr(expr, value): substitute, parse (a SyntaxError is re-raised   *)
(* as ValueError), evaluate                                                *)
eval_expr(expr, value, gv) ==
    LET tree == ast_parse(Substitute(expr, value, gv))
    IN IF ~tree.ok THEN RErr("ValueError") ELSE eval_node(tree.node)

----------------------------------------------------------------------------
(* util.py and the libraries compare relies on *)

(* compare_file_contents on two str: equal after strip() *)
compare_file_contents(expected, actual) == Strip(actual) = Strip(expected)

(* base64.b64decode(x).decode() on the encodings of "a", "1" and ""; any   *)
(* other text is reported as a decoding error                              *)
B64Ok(cs) == cs \in {<<"Y", "Q", "=", "=">>, <<"M", "Q", "=", "=">>, <<>>}
B64Decode(cs) == IF cs = <<"Y", "Q", "=", "=">> THEN <<"a">>
                 ELSE IF cs = <<"M", "Q", "=", "=">> THEN <<"1">>
                 ELSE <<>>

(* compute_hash_from_str: None for empty contents, else the hex digest;    *)
(* the digest of "a" is the real one, the digest of any other text is      *)
(* written "#" text, which no hex digest equals                            *)
Sha256OfA == <<"c", "a", "9", "7", "8", "1", "1", "2", "c", "a", "1", "b", "b", "d", "c", "a",
               "f", "a", "c", "2", "3", "1", "b", "3", "9", "a", "2", "3", "d", "c", "4", "d",
               "a", "7", "8", "6", "e", "f", "f", "8", "1", "4", "7", "c", "4", "e", "7", "2",
               "b", "9", "8", "0", "7", "7", "8", "5", "a", "f", "e", "e", "4", "8", "b", "b">>
compute_hash_from_str(contents) ==
    IF contents = <<"a">> THEN Sha256OfA ELSE <<"#">> \o contents

(* re.search(pattern, text, re.MULTILINE) for patterns of literal          *)
(* characters: a search for the pattern as a substring.  A pattern with    *)
(* an unbalanced parenthesis does not compile (re.error).                  *)
RegexCompiles(pattern) ==
    Cardinality({i \in 1..Len(pattern) : pattern[i] = "("})
        = Cardinality({i \in 1..Len(pattern) : pattern[i] = ")"})
re_search(pattern, text) == Contains(text, pattern)

(* rpm.labelCompare on (epoch, version, release) whose parts are decimal   *)
(* numbers or empty: -1, 0 or 1, the first part that differs deciding      *)
PartVal(cs) == IF cs = <<>> THEN -1 ELSE DigitsVal(cs)
Cmp(a, b) == IF a < b THEN -1 ELSE IF a > b THEN 1 ELSE 0
labelCompare(l, r) ==
    IF Cmp(PartVal(l[1]), PartVal(r[1])) # 0 THEN Cmp(PartVal(l[1]), PartVal(r[1]))
    ELSE IF Cmp(PartVal(l[2]), PartVal(r[2])) # 0 THEN Cmp(PartVal(l[2]), PartVal(r[2]))
    ELSE Cmp(PartVal(l[3]), PartVal(r[3]))

(* the first position of character c in s, 0 when it is not there *)
Find(s, c) == IF \E i \in 1..Len(s) : s[i] = c
              THEN CHOOSE i \in 1..Len(s) : s[i] = c /\ \A j \in 1..(i - 1) : s[j] # c
              ELSE 0

(* packages.py: evr_to_tuple *)
evr_to_tuple(evr) ==
    LET c == Find(evr, ":")
        epoch == IF c > 0 THEN SubSeq(evr, 1, c - 1) ELSE <<>>
        rest == IF c > 0 THEN SubSeq(evr, c + 1, Len(evr)) ELSE evr
        d == Find(rest, "-")
        version == IF d > 0 THEN SubSeq(rest, 1, d - 1) ELSE rest
        release == IF d > 0 THEN SubSeq(rest, d + 1, Len(rest)) ELSE <<>>
    IN <<epoch, version, release>>

(* the version strings labelCompare is modelled for *)
IsEvr(evr) == \A i \in 1..3 : evr_to_tuple(evr)[i] = <<>> \/ AllDigits(evr_to_tuple(evr)[i])

(* packages.py: package_ops; a plugin operator applied to something that   *)
(* is not a str raises                                                     *)
PackageOps == {"package_gt", "package_ge", "package_lt", "package_le",
               "package_eq", "package_ne"}
plugin_has(plugin_ops, op) == plugin_ops = "package_ops" /\ op \in PackageOps
plugin_call(op, l, r) ==
    IF l.ty # "str" \/ r.ty # "str" THEN RErr("TypeError")
    ELSE LET c == labelCompare(evr_to_tuple(l.s), evr_to_tuple(r.s))
         IN ROk(JBool(CASE op = "package_gt" -> c > 0
                        [] op = "package_ge" -> c >= 0
                        [] op = "package_lt" -> c < 0
                        [] op = "package_le" -> c <= 0
                        [] op = "package_eq" -> c = 0
                        [] OTHER -> c # 0))

----------------------------------------------------------------------------
(* engine.py: compare_identical and compare *)

(* the outcome of a comparison: the boolean returned, the fatal_err list   *)
(* as the call leaves it, and whether an exception left the call instead   *)
(* (and which: compare catches TypeError and ValueError only)              *)
CR(b, fatal) == [ok |-> b, fatal |-> fatal, raised |-> FALSE, exc |-> "none"]
CRaise(exc, fatal) == [ok |-> FALSE, fatal |-> fatal, raised |-> TRUE, exc |-> exc]

(* "if fatal_err: fatal_err.append(e)": appends to a non-empty list only *)
AppendIfTruthy(fatal, e) == IF fatal # <<>> THEN Append(fatal, e) ELSE fatal

UpperSeq == <<"A", "B", "C", "D", "E", "F", "G", "H", "I", "J", "K", "L", "M",
              "N", "O", "P", "Q", "R", "S", "T", "U", "V", "W", "X", "Y", "Z">>
LowerSeq == <<"a", "b", "c", "d", "e", "f", "g", "h", "i", "j", "k", "l", "m",
              "n", "o", "p", "q", "r", "s", "t", "u", "v", "w", "x", "y", "z">>
(* s.lower() *)
LowerChars(s) == [i \in 1..Len(s) |->
                    IF s[i] \in UpperSet
                    THEN LowerSeq[CHOOSE j \in 1..26 : UpperSeq[j] = s[i]]
                    ELSE s[i]]
(* op.lower() on the keys of a rule-set *)
LowerKey(key) == CASE key = "EQ" -> "eq"
                   [] key = "NE" -> "ne"
                   [] key = "Exists" -> "exists"
                   [] OTHER -> key

T_file == <<"f", "i", "l", "e">>
T_base64 == <<"b", "a", "s", "e", "6", "4">>
T_sha256 == <<"s", "h", "a", "2", "5", "6">>
T_string == <<"s", "t", "r", "i", "n", "g">>

(* fs: the files of the host, path |-> [readable, data]; a reference file  *)
(* named by None is a TypeError of os.path.exists                          *)
compare_identical(value, expected, fatal_err, fs) ==
    IF expected.ty # "dict" \/ ~HasKey(expected, "type") \/ ~HasKey(expected, "value")
    THEN CR(FALSE, AppendIfTruthy(fatal_err, "Expected dict"))
    ELSE IF Get(expected, "type").ty # "str" THEN CRaise("AttributeError", fatal_err)
    ELSE
    LET ident_type == LowerChars(Get(expected, "type").s)
        ident_val == Get(expected, "value")
    IN
    IF value.ty # "str"
    THEN CR(FALSE, AppendIfTruthy(fatal_err, "Expected string or bytes"))
    ELSE IF ident_type = T_file THEN
        IF ident_val.ty # "str" THEN CRaise("TypeError", fatal_err)
        ELSE IF ident_val.s \notin DOMAIN fs
        THEN CR(FALSE, Append(fatal_err, "Reference file does not exist"))
        ELSE IF ~fs[ident_val.s].readable
        THEN CR(FALSE, Append(fatal_err, "Failed to read file"))
        ELSE CR(compare_file_contents(value.s, fs[ident_val.s].data), fatal_err)
    ELSE IF ident_type = T_base64 THEN
        IF ident_val.ty # "str" \/ ~B64Ok(ident_val.s)
        THEN CR(FALSE, Append(fatal_err, "Error decoding base64 string"))
        ELSE CR(compare_file_contents(B64Decode(ident_val.s), value.s), fatal_err)
    ELSE IF ident_type = T_sha256 THEN
        IF value.s = <<>>
        THEN CR(FALSE, Append(fatal_err, "Unable to get sha256sum"))
        ELSE CR(ident_val.ty = "str" /\ compute_hash_from_str(value.s) = ident_val.s,
                fatal_err)
    ELSE IF ident_type = T_string THEN
        IF ident_val.ty # "str" THEN CRaise("AttributeError", fatal_err)
        ELSE CR(compare_file_contents(value.s, ident_val.s), fatal_err)
    ELSE CR(FALSE, Append(fatal_err, "Invalid identical type"))

(* one built-in comparator applied to val and expected: its boolean, or a  *)
(* TypeError, or an exception compare does not catch, or no such operator  *)
OpOk(b) == [kind |-> "ok", res |-> b]
OpResult(op, val, expected) ==
    CASE op = "eq" -> OpOk(PyEq(val, expected))
      [] op = "ne" -> OpOk(~PyEq(val, expected))
      [] op = "gt" -> OpOk(IsNumber(val) /\ IsNumber(expected)
                           /\ Tenths(val) > Tenths(expected))
      [] op = "ge" -> OpOk(IsNumber(val) /\ IsNumber(expected)
                           /\ Tenths(val) >= Tenths(expected))
      [] op = "lt" -> OpOk(IsNumber(val) /\ IsNumber(expected)
                           /\ Tenths(val) < Tenths(expected))
      [] op = "le" -> OpOk(IsNumber(val) /\ IsNumber(expected)
                           /\ Tenths(val) <= Tenths(expected))
      [] op = "bitwise_and" ->
            IF ~IsIntLike(val) THEN OpOk(FALSE)
            ELSE IF ~IsIntLike(expected) THEN [kind |-> "TypeError", res |-> FALSE]
            ELSE OpOk(BitAnd(val.n, expected.n) = expected.n)
      [] op = "exists" -> OpOk(PyEq(JBool(val.ty # "none"), expected))
      [] op = "contains" ->
            IF val.ty = "str"
            THEN IF expected.ty # "str" THEN [kind |-> "TypeError", res |-> FALSE]
                 ELSE OpOk(Contains(val.s, expected.s))
            ELSE OpOk(val.ty = "list"
                      /\ \E i \in 1..Len(val.items) : PyEq(val.items[i].v, expected))
      [] op = "regex" ->
            IF val.ty = "none" \/ expected.ty # "str" THEN OpOk(FALSE)
            ELSE IF ~RegexCompiles(expected.s) THEN [kind |-> "raise", res |-> FALSE]
            ELSE OpOk(re_search(expected.s, Str(val)))
      [] OTHER -> [kind |-> "unknown", res |-> FALSE]

(* except Exception around the plugin operator: the message is appended   *)
(* "if fatal_err:", False is returned                                      *)
PluginOpErrorByList(fatal) == CR(fatal # <<>>, Append(fatal, "Error in plugin op"))
PluginOpError(fatal) == CR(FALSE, AppendIfTruthy(fatal, "Error in plugin op"))

(* "Convert numerical values from strings if necessary":                  *)
(* val = float(val) if '.' in val else int(val)                            *)
Dotted(val) == \E j \in 1..Len(val.s) : val.s[j] = "."
NeedsConversion(val, expected) == val.ty = "str" /\ IsNumber(expected)
ConversionOk(val) == IF Dotted(val) THEN FloatOk(val.s) ELSE IntOk(val.s)
NoConversion(val, expected) == val
Converted(val, expected) ==
    IF ~NeedsConversion(val, expected) THEN val
    ELSE IF Dotted(val) THEN JFloat(FloatOf(val.s)) ELSE JInt(IntOf(val.s))

(* the value of the one-element set S: { F(x) : x \in {e} } computes e     *)
(* once and names it x, as an assignment to a local does                   *)
Only(S) == CHOOSE x \in S : TRUE

(* the locals of compare after a pass of its loop: val (rebound by the     *)
(* numeric conversion), success and fatal_err, whether the pass returned   *)
(* from compare (ret) and whether an exception left it (raised, exc)       *)
Locals(val, success, fatal) ==
    [val |-> val, success |-> success, fatal |-> fatal, ret |-> FALSE,
     raised |-> FALSE, exc |-> "none"]
Returned(st, r) ==
    [val |-> st.val, success |-> r.ok, fatal |-> r.fatal, ret |-> TRUE,
     raised |-> r.raised, exc |-> r.exc]

(* the right side of an operator: {"expr": text} is evaluated on val *)
Expected(given, val, gv) ==
    IF given.ty = "dict" /\ HasKey(given, "expr")
    THEN IF Get(given, "expr").ty = "str"
         THEN eval_expr(Get(given, "expr").s, val, gv)
         ELSE RErr("TypeError")
    ELSE ROk(given)

(* a built-in comparator after the numeric conversion *)
BuiltInResult(st, v2, o) ==
    CASE o.kind = "unknown" ->
             Returned(st, CR(FALSE, Append(st.fatal, "Unknown comparison operator")))
      [] o.kind = "raise" -> Returned(st, CRaise("re.error", st.fatal))
      [] o.kind = "TypeError" ->
             Locals(v2, FALSE, Append(st.fatal, "Type mismatch error"))
      [] OTHER -> Locals(v2, st.success /\ o.res, st.fatal)
BuiltIn(op, st, expected) ==
    IF NeedsConversion(st.val, expected) /\ ~ConversionOk(st.val)
    THEN Locals(st.val, FALSE, Append(st.fatal, "Type mismatch error"))
    ELSE Only({ Only({ BuiltInResult(st, v2, o) : o \in {OpResult(op, v2, expected)} }) :
                v2 \in {Converted(st.val, expected)} })

(* the "identical" operator; a TypeError is caught by compare, any other   *)
(* exception leaves it                                                     *)
Identical(st, expected, fs) ==
    Only({ IF r.raised /\ r.exc = "TypeError"
           THEN Locals(st.val, FALSE, Append(r.fatal, "Type mismatch error"))
           ELSE IF r.raised THEN Returned(st, r)
           ELSE Locals(st.val, st.success /\ r.ok, r.fatal) :
           r \in {compare_identical(st.val, expected, st.fatal, fs)} })

(* an operator of the plugin *)
PluginOp(op, st, expected) ==
    Only({ IF ~r.ok THEN Returned(st, PluginOpError(st.fatal))
           ELSE Locals(st.val, st.success /\ r.v.n = 1, st.fatal) :
           r \in {plugin_call(op, st.val, expected)} })

(* one pass of the loop of compare, for the item (op, expected) *)
PassOf(op, st, expected, plugin_ops, fs) ==
    IF plugin_has(plugin_ops, op) THEN PluginOp(op, st, expected)
    ELSE IF op = "identical" THEN Identical(st, expected, fs)
    ELSE BuiltIn(op, st, expected)
ComparePass(item, st, plugin_ops, gv, fs) ==
    Only({ IF ~ev.ok
           THEN Returned(st, CR(FALSE, Append(st.fatal, "Error evaluating expression")))
           ELSE Only({ PassOf(LowerKey(item.k), st, expected, plugin_ops, fs) :
                       expected \in {ev.v} }) :
           ev \in {Expected(item.v, st.val, gv)} })

(* for op, expected in rule.items(), from item i on *)
RECURSIVE CompareLoop(_, _, _, _, _, _)
CompareLoop(items, i, st, plugin_ops, gv, fs) ==
    IF i > Len(items) \/ st.ret THEN st
    ELSE Only({ CompareLoop(items, i + 1, next, plugin_ops, gv, fs) :
                 next \in {ComparePass(items[i], st, plugin_ops, gv, fs)} })

(* compare(val, rule, attr, context, fatal_err, plugin_ops): a rule that   *)
(* is not a dict is an implicit {"eq": rule}; returns success              *)
compare(val, rule, fatal_err, plugin_ops, gv, fs) ==
    Only({ [ok |-> st.success /\ ~st.raised, fatal |-> st.fatal,
            raised |-> st.raised, exc |-> st.exc] :
           st \in {CompareLoop((IF rule.ty = "dict" THEN rule
                                ELSE JDict(<<KV("eq", rule)>>)).items,
                               1, Locals(val, TRUE, fatal_err), plugin_ops, gv, fs)} })

----------------------------------------------------------------------------
(* engine.py: validate_rule *)

(* the outcome of validate_rule: the tuple (passed, failures) it returns,  *)
(* the caller's fatal_err list as the call leaves it, and whether an       *)
(* exception left the call instead of a tuple                              *)
VR(b, fs_, fatal) == [passed |-> b, failures |-> fs_, fatal |-> fatal, raised |-> FALSE]
VRaise(fatal) == [passed |-> FALSE, failures |-> <<>>, fatal |-> fatal, raised |-> TRUE]

(* env: what stays the same through one evaluation: the attributes, the    *)
(* plugin operators, global_vars and the files of the host                 *)
Env(attributes, plugin_ops, gv, fs) ==
    [attributes |-> attributes, plugin_ops |-> plugin_ops, gv |-> gv, fs |-> fs]

(* "if not passed: all_passed = False" in the loop over rule["and"] *)
AndPassedLast(all_passed, passed) == passed
AndPassed(all_passed, passed) == IF ~passed THEN FALSE ELSE all_passed

(* return any_passed, [] if any_passed else all_failures *)
OrReturnAll(any_passed, all_failures, fatal) == VR(any_passed, all_failures, fatal)
OrReturn(any_passed, all_failures, fatal) ==
    VR(any_passed, IF any_passed THEN <<>> ELSE all_failures, fatal)

(* the returns of the "not" branch, r being the outcome of rule["not"] *)
NotReturnSame(r) == VR(r.passed, <<>>, r.fatal)
NotReturn(r) ==
    IF r.passed THEN VR(FALSE, <<"failed 'not' condition">>, r.fatal)
    ELSE VR(TRUE, <<>>, r.fatal)

(* all_passed = all_passed and result, in the loop over the attributes of  *)
(* a leaf                                                                  *)
LeafPassedLast(all_passed, result) == result
LeafPassed(all_passed, result) == all_passed /\ result

RECURSIVE validate_rule(_, _, _, _, _), AndLoop(_, _, _, _, _, _, _),
          OrLoop(_, _, _, _, _, _), LeafLoop(_, _, _, _, _, _, _, _)

(* for cond in rule["and"]: no short-circuit, the failures of every        *)
(* failing member are collected                                            *)
AndLoop(env, conds, i, inside_not, all_passed, all_failures, fatal) ==
    IF i > Len(conds) THEN VR(all_passed, all_failures, fatal)
    ELSE Only({ IF r.raised THEN r
                ELSE AndLoop(env, conds, i + 1, inside_not,
                             AndPassed(all_passed, r.passed),
                             IF ~r.passed THEN all_failures \o r.failures
                             ELSE all_failures,
                             r.fatal) :
                r \in {validate_rule(env, conds[i].v, inside_not, fatal, FALSE)} })

(* for cond in rule["or"]: stops at the first member that passes *)
OrLoop(env, conds, i, inside_not, all_failures, fatal) ==
    IF i > Len(conds) THEN OrReturn(FALSE, all_failures, fatal)
    ELSE Only({ IF r.raised THEN r
                ELSE IF r.passed THEN OrReturn(TRUE, all_failures, r.fatal)
                ELSE OrLoop(env, conds, i + 1, inside_not,
                            all_failures \o r.failures, r.fatal) :
                r \in {validate_rule(env, conds[i].v, inside_not, fatal, FALSE)} })

(* one pass of the loop over the attributes of a leaf: c is the outcome    *)
(* of compare, or NoCompare for an attribute the facts do not have         *)
NoCompare == [ok |-> FALSE, fatal |-> <<>>, raised |-> FALSE, exc |-> "missing"]
LeafCompare(env, item) ==
    IF ~HasKey(env.attributes, item.k) THEN NoCompare
    ELSE compare(Get(env.attributes, item.k), item.v, <<>>,
                 env.plugin_ops, env.gv, env.fs)

(* for attribute_name, condition in rule.items(), attributes being a dict *)
LeafLoop(env, items, i, inside_not, allow, all_passed, all_failures, fatal) ==
    IF i > Len(items) THEN VR(all_passed, all_failures, fatal)
    ELSE Only({ IF c.raised THEN VRaise(fatal)
                ELSE LeafLoop(env, items, i + 1, inside_not, allow,
                         IF c.exc = "missing" THEN FALSE
                         ELSE LeafPassed(all_passed, c.ok),
                         IF c.exc # "missing" /\ ~c.ok /\ ~inside_not
                         THEN Append(all_failures, "failed condition")
                         ELSE all_failures,
                         IF c.exc = "missing"
                         THEN IF ~(inside_not /\ allow)
                              THEN Append(fatal, "unknown attribute") ELSE fatal
                         ELSE fatal \o c.fatal) :
                c \in {LeafCompare(env, items[i])} })

(* a rule that is not a dict, or attributes that are not: one compare *)
Scalar(env, rule, inside_not, fatal_err, text) ==
    Only({ IF c.raised THEN VRaise(fatal_err)
           ELSE IF ~c.ok /\ ~inside_not
           THEN VR(FALSE, <<text>>, fatal_err \o c.fatal)
           ELSE VR(c.ok, <<>>, fatal_err \o c.fatal) :
           c \in {compare(env.attributes, rule, <<>>, env.plugin_ops, env.gv, env.fs)} })

(* validate_rule(attributes, rule, attr, context, inside_not, fatal_err,   *)
(* plugin_ops, allow_missing_attrs); the recursive calls do not pass       *)
(* allow_missing_attrs on, so that it is False below the top rule          *)
validate_rule(env, rule, inside_not, fatal_err, allow_missing_attrs) ==
    IF rule.ty = "dict" /\ HasKey(rule, "and") THEN
        IF Get(rule, "and").ty # "list" THEN VRaise(fatal_err)
        ELSE AndLoop(env, Get(rule, "and").items, 1, inside_not, TRUE, <<>>, fatal_err)
    ELSE IF rule.ty = "dict" /\ HasKey(rule, "or") THEN
        IF Get(rule, "or").ty # "list" THEN VRaise(fatal_err)
        ELSE OrLoop(env, Get(rule, "or").items, 1, inside_not, <<>>, fatal_err)
    ELSE IF rule.ty = "dict" /\ HasKey(rule, "not") THEN
        Only({ IF r.raised THEN r ELSE NotReturn(r) :
               r \in {validate_rule(env, Get(rule, "not"), TRUE, fatal_err, FALSE)} })
    ELSE IF rule.ty = "dict" /\ env.attributes.ty = "dict" THEN
        LeafLoop(env, rule.items, 1, inside_not, allow_missing_attrs,
                 TRUE, <<>>, fatal_err)
    ELSE Scalar(env, rule, inside_not, fatal_err,
                IF rule.ty = "dict" THEN "failed condition" ELSE "failed condition eq")

(* rule_implies_nonexistence(rule) *)
rule_implies_nonexistence(rule) ==
    \/ PyEq(rule, JDict(<<KV("exists", JFalse)>>))
    \/ /\ rule.ty = "dict"
       /\ HasKey(rule, "not")
       /\ PyEq(Get(rule, "not"), JDict(<<KV("exists", JTrue)>>))

(* get_required_attributes(rule): the keys of the rule's dicts other than  *)
(* and / or / not                                                          *)
RECURSIVE get_required_attributes(_)
get_required_attributes(r) ==
    IF r.ty = "dict" THEN
        UNION {IF r.items[i].k \in {"and", "or"}
               THEN UNION {get_required_attributes(r.items[i].v.items[j].v) :
                               j \in 1..Len(r.items[i].v.items)}
               ELSE IF r.items[i].k = "not"
               THEN get_required_attributes(r.items[i].v)
               ELSE {r.items[i].k} \cup get_required_attributes(r.items[i].v)
               : i \in 1..Len(r.items)}
    ELSE IF r.ty = "list" THEN
        UNION {get_required_attributes(r.items[i].v) : i \in 1..Len(r.items)}
    ELSE {}

----------------------------------------------------------------------------
(* host.py: OLHost fills engine.global_vars *)

(* key = re.sub(r"[^\w]", "_", key), less one trailing "_" *)
NormalizeKey(key) ==
    LET u == [i \in 1..Len(key) |-> IF key[i] \in IdChar THEN key[i] ELSE "_"]
    IN IF u # <<>> /\ u[Len(u)] = "_" THEN SubSeq(u, 1, Len(u) - 1) ELSE u

(* the value _populate_meminfo stores for a line "key: val [unit]" *)
MeminfoValue(line) ==
    IF IntOk(line.val)
    THEN JInt(IF line.unit = <<"k", "B">> THEN IntOf(line.val) * 1024 ELSE IntOf(line.val))
    ELSE JStr(line.val)

(* _populate_meminfo: global_vars[key] = value for every line, later lines *)
(* overwriting earlier ones                                                *)
RECURSIVE populate_meminfo(_, _)
populate_meminfo(gv, lines) ==
    IF lines = <<>> THEN gv
    ELSE LET key == NormalizeKey(Head(lines).key)
             val == MeminfoValue(Head(lines))
         IN populate_meminfo([n \in (DOMAIN gv) \cup {key} |->
                                 IF n = key THEN val ELSE gv[n]],
                             Tail(lines))

(* _populate_global_vars, for the HOST_ variables rules refer to *)
populate_global_vars(gv, host) ==
    LET new == [n \in {<<"H", "O", "S", "T", "_", "V", "I", "R", "T">>, <<"H", "O", "S", "T", "_", "U", "E", "K", "_", "V", "E", "R">>, <<"H", "O", "S", "T", "_", "O", "S", "_", "M", "A", "J", "O", "R">>} |->
                   IF n = <<"H", "O", "S", "T", "_", "V", "I", "R", "T">> THEN JInt(IF host.virt_guest THEN 1 ELSE 0)
                   ELSE IF n = <<"H", "O", "S", "T", "_", "U", "E", "K", "_", "V", "E", "R">> THEN JStr(host.uek_ver)
                   ELSE JStr(host.os_major)]
    IN [n \in (DOMAIN gv) \cup (DOMAIN new) |->
           IF n \in DOMAIN new THEN new[n] ELSE gv[n]]

MemLine(key, val, unit) == [key |-> key, val |-> val, unit |-> unit]
(* the hosts looked at: a live system and two sosreport directories, one   *)
(* without a readable proc/meminfo, one whose meminfo has a line "value"   *)
Hosts ==
    { [base_path |-> "/", virt_guest |-> FALSE, uek_ver |-> <<>>, os_major |-> <<"8">>,
       meminfo |-> <<MemLine(<<"M", "e", "m", "F", "r", "e", "e">>, <<"4">>, <<"k", "B">>),
                     MemLine(<<"A", "c", "t", "i", "v", "e", "(", "a", "n", "o", "n", ")">>, <<"2">>, <<"k", "B">>)>>],
      [base_path |-> "/sos1", virt_guest |-> TRUE, uek_ver |-> <<"5">>, os_major |-> <<"9">>,
       meminfo |-> <<>>],
      [base_path |-> "/sos2", virt_guest |-> TRUE, uek_ver |-> <<"5">>, os_major |-> <<"9">>,
       meminfo |-> <<MemLine(<<"M", "e", "m", "F", "r", "e", "e">>, <<"4">>, <<"k", "B">>),
                     MemLine(<<"v", "a", "l", "u", "e">>, <<"5">>, <<>>)>>] }

(* the files compare_identical may be pointed at *)
HostFiles ==
    [p \in {<<"/", "a">>, <<"/", "x">>} |->
        IF p = <<"/", "a">> THEN [readable |-> TRUE, data |-> <<"l", "i", "v", "e", " ">>, mode |-> 420]
        ELSE [readable |-> FALSE, data |-> <<>>, mode |-> 384]]

----------------------------------------------------------------------------
(* State *)

VARIABLES
    global_vars,  \* engine.global_vars
    base_path,    \* args.sos or "/"
    phase,        \* "start" before OLHost(), then "ready" between calls and
                  \* "called" while the outcome of a call is looked at
    op,           \* the call made last
    args,         \* its arguments
    result        \* what it returned and left behind

(* Part II: the other tools (lkce, memtracker, oled scripts, oomwatch);    *)
(* every process of a tool is a "pid" below, 0 stands for "none".          *)
VARIABLES
    lkce_pc,      \* lkce.py __main__: where each lkce process is
    FH,           \* the inode its FH is open on
    LOCK_FILE,    \* the inode /var/run/oled-tools/lkce.lock names
    lkce_flock    \* inode |-> the process holding flock(LOCK_EX) on it

VARIABLES
    mt,            \* memtracker.py: each memtracker process (see MtFresh)
    parent_dir,    \* whether /run/lock/memtracker exists
    mt_lock,       \* the inode /run/lock/memtracker/lock names
    mt_flock,      \* inode |-> the process holding flock(LOCK_EX) on it
    LOGROTATEFILE  \* whether /etc/logrotate.d/memtracker exists

VARIABLES
    lkce_sys,      \* lkce.py: the files lkce commands read and write (LkceFresh)
    lkce_run       \* the lkce command run last and how it went

VARIABLES
    USER_STARTUP_CONFIG_FILE,  \* scripts.py: /etc/oled/startup-scripts.conf
    scripts_op                 \* the oled scripts command run last

VARIABLES
    lkce_outdir_files,   \* the files of lkce_outdir: name |-> ctime
    conf_max_out_files,   \* the value of max_out_files that read_config finds
    clean_run   \* what the last clean-up did, while nothing else has changed since

VARIABLES
    procs,   \* the processes of the system: pid |-> [state, name, rss]
    ow   \* the oomwatch --kill invocation: its position and locals

VARIABLES
    st,   \* scripts.py run-startup-enabled: where it is and its locals (StFresh)
    children   \* the child processes it has made: pid |-> "none", "running", "zombie" (terminated) or "reaped"

oscheck == <<global_vars, base_path, phase, op, args, result>>
lkce_main == <<lkce_pc, FH, LOCK_FILE, lkce_flock>>
memtracker == <<mt, parent_dir, mt_lock, mt_flock, LOGROTATEFILE>>
lkce_tool == <<lkce_sys, lkce_run>>
scripts_tool == <<USER_STARTUP_CONFIG_FILE, scripts_op>>
lkce_reports == <<lkce_outdir_files, conf_max_out_files, clean_run>>
oomwatch == <<procs, ow>>
startup == <<st, children>>
others == <<lkce_main, memtracker, lkce_tool, scripts_tool, lkce_reports, oomwatch, startup>>
vars == <<oscheck, others>>

(* what the steps of one tool leave alone: the state of the others *)
rest_lkce_main == <<oscheck, memtracker, lkce_tool, scripts_tool, lkce_reports, oomwatch, startup>>
rest_memtracker == <<oscheck, lkce_main, lkce_tool, scripts_tool, lkce_reports, oomwatch, startup>>
rest_lkce_tool == <<oscheck, lkce_main, memtracker, scripts_tool, lkce_reports, oomwatch, startup>>
rest_scripts_tool == <<oscheck, lkce_main, memtracker, lkce_tool, lkce_reports, oomwatch, startup>>
rest_lkce_reports == <<oscheck, lkce_main, memtracker, lkce_tool, scripts_tool, oomwatch, startup>>
rest_oomwatch == <<oscheck, lkce_main, memtracker, lkce_tool, scripts_tool, lkce_reports, startup>>
rest_startup == <<oscheck, lkce_main, memtracker, lkce_tool, scripts_tool, lkce_reports, oomwatch>>

MaxProcs == 3
Pids == 1..MaxProcs
Inodes == 1..(MaxProcs + 1)

(* a text file: whether it exists, and its lines *)
NoFile == [exists |-> FALSE, lines |-> <<>>]
File(lines) == [exists |-> TRUE, lines |-> lines]

(* a system with kexec-tools installed and lkce not yet configured:        *)
(* /etc/oled/lkce/lkce.conf (config), /etc/kdump.conf and its backup       *)
(* /etc/oled/lkce/kdump.conf.bak, the link /etc/kdump/pre.d/10-lkce_kdump.sh,*)
(* whether /etc/kdump/pre.d (pre_d) and /etc/oled/lkce/lkce_kdump.sh       *)
(* (kdump_sh) exist                                                        *)
LkceFresh == [config |-> NoFile, kdump_conf |-> File(<<<<"p", "a", "t", "h", " ", "/", "v", "a", "r", "/", "c", "r", "a", "s", "h">>>>), backup |-> NoFile, link |-> FALSE, pre_d |-> FALSE, kdump_sh |-> FALSE]
NoRun == [cmd |-> "none", subarg |-> <<>>]

MaxTrackers == 2
Trackers == 1..MaxTrackers

(* a memtracker process: where the script is (pc), the module globals      *)
(* lock_fd (0 is None, else the inode the file object was opened on) and   *)
(* whether that file object is closed, whether the signal handlers are     *)
(* installed, the statement of cleanup() that runs next (0: not in the     *)
(* handler), and for a process that has ended its exit status.  signalled  *)
(* and done record that a signal was delivered and what cleanup() did.     *)
MtFresh == [pc |-> "none", lock_fd |-> 0, closed |-> FALSE, handlers |-> FALSE, handler |-> 0, status |-> 0, signalled |-> FALSE, done |-> {}]

(* oomwatch: the pids of the system, oomwatch's own being OomPid *)
MaxPid == 3
MaxRss == 2
OomPid == 1
OomPids == 1..MaxPid
NoProc == [state |-> "none", name |-> "", rss |-> 0]
Exited == [state |-> "exited", name |-> "", rss |-> 0]
OwFresh == [pc |-> "none", proc_names |-> <<>>, processes |-> <<>>, seen |-> <<>>, rss |-> <<>>, target |-> 0, ret |-> -1, verified |-> <<>>, sent |-> <<>>, raised |-> FALSE]

(* oled scripts run-startup-enabled: the i-th script of the list gets pid  *)
(* i; pids is the dictionary of run_startup_scripts, proc its last Popen   *)
(* object, active the list subprocess keeps of the Popen objects that were *)
(* dropped while their child was running                                   *)
MaxScripts == 3
ChildPids == 1..MaxScripts
StFresh == [pc |-> "none", scripts |-> <<>>, i |-> 1, pids |-> {}, spawned |-> {}, proc |-> 0, active |-> {}, logged |-> [pid \in ChildPids |-> 0], waited |-> 0]

NoArgs == [none |-> TRUE]

Init ==
    /\ global_vars = <<>>
    /\ base_path = "/"
    /\ phase = "start"
    /\ op = "init"
    /\ args = NoArgs
    /\ result = NoArgs
    /\ lkce_pc = [p \in Pids |-> "none"]
    /\ FH = [p \in Pids |-> 0]
    /\ LOCK_FILE = 0
    /\ lkce_flock = [i \in Inodes |-> 0]
    /\ mt = [p \in Trackers |-> MtFresh]
    /\ parent_dir = FALSE
    /\ mt_lock = 0
    /\ mt_flock = [i \in Inodes |-> 0]
    /\ LOGROTATEFILE = FALSE
    /\ lkce_sys = LkceFresh
    /\ lkce_run = NoRun
    /\ USER_STARTUP_CONFIG_FILE = NoFile
    /\ scripts_op = NoRun
    /\ lkce_outdir_files = <<>>
    /\ conf_max_out_files = <<"5", "0">>
    /\ clean_run = NoRun
    /\ procs = [pid \in OomPids |-> IF pid = OomPid THEN [state |-> "running", name |-> "python3", rss |-> 1] ELSE NoProc]
    /\ ow = OwFresh
    /\ st = StFresh
    /\ children = [pid \in ChildPids |-> "none"]

(* the caller takes the outcome and goes on *)
Return ==
    /\ phase = "called"
    /\ phase' = "ready"
    /\ op' = "return"
    /\ args' = NoArgs
    /\ result' = NoArgs
    /\ UNCHANGED <<global_vars, base_path>>
    /\ UNCHANGED others

(* __main__.py main(): host = OLHost(base_path=args.sos or "/") *)
HostInit ==
    /\ phase = "start"
    /\ \E h \in Hosts :
          /\ base_path' = h.base_path
          /\ global_vars' = populate_global_vars(populate_meminfo(<<>>, h.meminfo), h)
    /\ phase' = "ready"
    /\ op' = "OLHost"
    /\ UNCHANGED <<args, result>>
    /\ UNCHANGED others

----------------------------------------------------------------------------
(* The rule engine as the plugins call it *)

(* bounds of the inputs *)
MaxConds == 2     \* members of an "and" / "or" list

SeqsUpTo(S, n) == UNION {[1..k -> S] : k \in 0..n}

(* rule constructors *)
Leaf1(attr, cond) == JDict(<<KV(attr, cond)>>)
Ops1(o, expected) == JDict(<<KV(o, expected)>>)
Ops2(o1, e1, o2, e2) == JDict(<<KV(o1, e1), KV(o2, e2)>>)
Expr(text) == JDict(<<KV("expr", JStr(text))>>)
And(conds) == JDict(<<KV("and", JList(conds))>>)
Or(conds) == JDict(<<KV("or", JList(conds))>>)
Not(cond) == JDict(<<KV("not", cond)>>)

(* attribute dictionaries as the plugins build them: the record for a      *)
(* pattern that matched nothing (kmod, packages, processes: exists False;  *)
(* systemd: exists 0), a loaded kernel module, a systemd unit              *)
AttrAbsent == JDict(<<KV("exists", JFalse)>>)
AttrAbsent0 == JDict(<<KV("exists", JInt(0))>>)
AttrModule == JDict(<<KV("exists", JTrue), KV("size", JInt(5)),
                      KV("state", JStr(<<"l", "i", "v", "e">>)), KV("usage_count", JInt(7)),
                      KV("used_by", JList(<<JStr(<<"e", "x", "t", "4">>)>>))>>)
AttrUnit == JDict(<<KV("exists", JStr(<<"1">>)), KV("state", JStr(<<"a", "c", "t", "i", "v", "e", "/", "r", "u", "n", "n", "i", "n", "g">>))>>)
AttrDicts == {AttrAbsent, AttrAbsent0, AttrModule, AttrUnit}
(* the sysctl plugin hands over the value itself, not a dictionary *)
AttrScalar == JStr(<<"1">>)
Attrs == AttrDicts \cup {AttrScalar}

(* attribute leaves: passing and failing comparisons, an unknown           *)
(* attribute, an unknown operator, a type mismatch, an expression, a       *)
(* pattern that does not compile, several attributes, none                 *)
Leaves ==
    { Leaf1("exists", JTrue),
      Leaf1("exists", JFalse),
      Leaf1("size", Ops1("gt", JInt(3))),
      Leaf1("size", Ops2("lt", JInt(9), "bogus", JInt(1))),
      Leaf1("nosuch", JInt(1)),
      Leaf1("state", Ops1("contains", JInt(1))),
      Leaf1("state", Ops1("regex", JStr(<<"(">>))),
      Leaf1("size", Ops1("ge", Expr(<<"$", "v", "a", "l", "u", "e", " ", "-", " ", "1">>))),
      Leaf1("usage_count", JInt(7)),
      JDict(<<KV("exists", JTrue), KV("size", JInt(5))>>),
      JDict(<<KV("size", JInt(5)), KV("exists", JFalse)>>),
      JDict(<<KV("exists", JFalse), KV("size", JInt(5))>>),
      JDict(<<>>) }
Members == Leaves \cup {Not(l) : l \in Leaves}

(* members of the lists of the rule trees *)
ListMembers ==
    { Leaf1("exists", JTrue),
      Leaf1("size", Ops1("gt", JInt(3))),
      Leaf1("nosuch", JInt(1)),
      Leaf1("state", Ops1("regex", JStr(<<"(">>))),
      Not(Leaf1("exists", JTrue)),
      Or(<<Leaf1("exists", JFalse), Leaf1("size", JInt(5))>>) }
Lists == SeqsUpTo(ListMembers, MaxConds)
RuleTrees ==
    Members
    \cup {And(l) : l \in Lists} \cup {Or(l) : l \in Lists}
    \cup {Not(And(l)) : l \in Lists} \cup {Not(Or(l)) : l \in Lists}
    \cup {JInt(5), JTrue}

HostEnv(attributes, plugin_ops) == Env(attributes, plugin_ops, global_vars, HostFiles)

(* passed, failures = validate_rule(attributes, rule, name, context,       *)
(*                                  fatal_err=[], ...)                     *)
CallValidateRule ==
    /\ phase = "ready"
    /\ \E attributes \in Attrs, rule \in RuleTrees, allow \in BOOLEAN :
          /\ args' = [attributes |-> attributes, rule |-> rule,
                      allow_missing_attrs |-> allow]
          /\ result' = validate_rule(HostEnv(attributes, "none"), rule, FALSE, <<>>, allow)
    /\ op' = "validate_rule"
    /\ phase' = "called"
    /\ UNCHANGED <<global_vars, base_path>>
    /\ UNCHANGED others

(* the two sides of De Morgan's laws for rules A and B, each evaluated as  *)
(* a rule of its own on the same attributes                                *)
NotAnd(A, B) == Not(And(<<A, B>>))
OrNots(A, B) == Or(<<Not(A), Not(B)>>)
NotOr(A, B) == Not(Or(<<A, B>>))
AndNots(A, B) == And(<<Not(A), Not(B)>>)
DeMorganRules(A, B) == {NotAnd(A, B), OrNots(A, B), NotOr(A, B), AndNots(A, B), A, B}
CallDeMorgan ==
    /\ phase = "ready"
    /\ \E attributes \in AttrDicts, A \in Members, B \in Members :
          \E run \in {[rule \in DeMorganRules(A, B) |->
                         validate_rule(HostEnv(attributes, "none"), rule,
                                       FALSE, <<>>, FALSE)]} :
             /\ args' = [attributes |-> attributes, A |-> A, B |-> B]
             /\ result' = [not_and |-> run[NotAnd(A, B)], or_nots |-> run[OrNots(A, B)],
                           not_or |-> run[NotOr(A, B)], and_nots |-> run[AndNots(A, B)],
                           a |-> run[A], b |-> run[B]]
    /\ op' = "de_morgan"
    /\ phase' = "called"
    /\ UNCHANGED <<global_vars, base_path>>
    /\ UNCHANGED others

----------------------------------------------------------------------------
(* compare and eval_expr as validate_rule and the plugins call them *)

(* left-side values: numbers, numeric and other strings, a package         *)
(* version, None, a bool, a list                                           *)
Vals ==
    { JInt(3), JInt(7), JStr(<<"7">>), JStr(<<"l", "i", "v", "e">>), JStr(<<"1", ".", "5">>), JStr(<<"1", ":", "2", "-", "3">>),
      JNone, JTrue, JList(<<JStr(<<"e", "x", "t", "4">>)>>) }

(* expression texts: $value and global variables, operators inside and     *)
(* outside VALID_OPS, names, text that does not parse                      *)
Exprs ==
    { <<"$", "v", "a", "l", "u", "e", " ", "-", " ", "1">>, <<"$", "v", "a", "l", "u", "e">>, <<"$", "v", "a", "l", "u", "e", "$", "v", "a", "l", "u", "e">>, <<"2", " ", "*", " ", "$", "v", "a", "l", "u", "e", " ", "+", " ", "$", "H", "O", "S", "T", "_", "V", "I", "R", "T">>,
      <<"$", "M", "e", "m", "F", "r", "e", "e", " ", "/", "/", " ", "1", "0", "2", "4">>, <<"$", "n", "o", "s", "u", "c", "h", " ", "+", " ", "1">>, <<"$", "n", "o", "s", "u", "c", "h", "+", "1">>, <<"~", "$", "v", "a", "l", "u", "e">>, <<"1", " ", "@", " ", "2">>,
      <<"-", "$", "v", "a", "l", "u", "e", " ", "*", "*", " ", "2">>, <<"1", " ", "/", " ", "0">>, <<"a", "b", "s">>, <<"1", " ", "+">>, <<"$", "v", "a", "l", "u", "e", " ", "<", " ", "9">>, <<"7", " ", "&", " ", "3", " ", "|", " ", "8">>,
      <<"1", ".", "5", " ", "*", " ", "2">>, <<"(", "1", " ", "+", " ", "2", ")", " ", "*", " ", "$", "v", "a", "l", "u", "e">>, <<"$", "H", "O", "S", "T", "_", "U", "E", "K", "_", "V", "E", "R">> }

(* rule-sets: one operator, an implicit eq, several operators whose order  *)
(* matters, an expression on the right, identical, plugin operators        *)
IdentString(text) == JDict(<<KV("type", JStr(<<"s", "t", "r", "i", "n", "g">>)), KV("value", JStr(text))>>)
IdentFile(path) == JDict(<<KV("type", JStr(<<"f", "i", "l", "e">>)), KV("value", path)>>)
RuleSets ==
    { Ops1(o, e) : o \in {"eq", "ne", "gt", "le", "bitwise_and", "exists",
                          "contains", "regex", "bogus", "EQ"},
                   e \in {JInt(7), JStr(<<"7">>), JTrue, JStr(<<"(">>)} }
    \cup { Ops1(o, Expr(x)) : o \in {"eq", "ge"}, x \in Exprs }
    \cup { JInt(7), JStr(<<"l", "i", "v", "e">>), JNone,
           Ops2("eq", JInt(7), "contains", JStr(<<"7">>)),
           Ops2("contains", JStr(<<"7">>), "eq", JInt(7)),
           Ops2("bogus", JInt(1), "eq", JInt(7)),
           Ops2("gt", JStr(<<"x">>), "lt", Expr(<<"1", " ", "+">>)),
           Ops1("identical", IdentString(<<" ", "l", "i", "v", "e", " ">>)),
           Ops1("identical", IdentFile(JStr(<<"/", "a">>))),
           Ops1("identical", IdentFile(JStr(<<"/", "x">>))),
           Ops1("identical", IdentFile(JStr(<<"/", "n", "o", "p", "e">>))),
           Ops1("identical", IdentFile(JNone)),
           Ops1("identical", JStr(<<"l", "i", "v", "e">>)),
           Ops1("identical", IdentString(<<"l", "i", "v", "e">>) ),
           Ops1("package_gt", JStr(<<"1", ":", "2", "-", "2">>)),
           Ops1("package_le", JStr(<<"2", "-", "1">>)),
           Ops2("package_eq", JStr(<<"1", ":", "2", "-", "3">>), "ne", JInt(3)) }

(* the fatal_err list of the caller: empty, or holding an earlier error *)
FatalLists == {<<>>, <<"earlier error">>}
PluginOpSets == {"none", "package_ops"}

(* compare(val, rule, attr, context, fatal_err=fatal_err,                  *)
(*         plugin_ops=plugin_ops); the packages plugin, the one with       *)
(* operators of its own, compares version strings                          *)
CallCompare ==
    /\ phase = "ready"
    /\ \E val \in Vals, rule \in RuleSets, fatal_err \in FatalLists,
          plugin_ops \in PluginOpSets :
          /\ plugin_ops = "package_ops" => (val.ty = "str" => IsEvr(val.s))
          /\ args' = [val |-> val, rule |-> rule, fatal_err |-> fatal_err,
                      plugin_ops |-> plugin_ops]
          /\ result' = [first |-> compare(val, rule, fatal_err, plugin_ops,
                                          global_vars, HostFiles)]
    /\ op' = "compare"
    /\ phase' = "called"
    /\ UNCHANGED <<global_vars, base_path>>
    /\ UNCHANGED others

(* the same call once more: same value, rule-set, plugin operators and     *)
(* global variables, and the caller's fatal_err list as the first call     *)
(* left it                                                                 *)
CallCompareAgain ==
    /\ phase = "called"
    /\ op = "compare"
    /\ result' = [first |-> result.first,
                  second |-> compare(args.val, args.rule, result.first.fatal,
                                     args.plugin_ops, global_vars, HostFiles)]
    /\ op' = "compare_again"
    /\ UNCHANGED <<global_vars, base_path, phase, args>>
    /\ UNCHANGED others

(* eval_expr(expr, value): the text after substitution, the tree ast.parse *)
(* makes of it and the value or the exception                              *)
CallEvalExpr ==
    /\ phase = "ready"
    /\ \E expr \in Exprs, value \in Vals :
          /\ args' = [expr |-> expr, value |-> value]
          /\ result' = [text |-> Substitute(expr, value, global_vars),
                        tree |-> ast_parse(Substitute(expr, value, global_vars)),
                        eval |-> eval_expr(expr, value, global_vars)]
    /\ op' = "eval_expr"
    /\ phase' = "called"
    /\ UNCHANGED <<global_vars, base_path>>
    /\ UNCHANGED others

(* oscheck: the host is looked at once, then the engine is called rule by  *)
(* rule                                                                    *)
Next ==
    \/ HostInit
    \/ CallValidateRule
    \/ CallDeMorgan
    \/ CallCompare
    \/ CallCompareAgain
    \/ CallEvalExpr
    \/ Return

Spec == Init /\ [][Next]_vars

----------------------------------------------------------------------------
(* The plugins: run(rules, base_path) *)

(* fnmatch.fnmatch(name, pat), for patterns made of literal characters,    *)
(* "?" and "*"                                                             *)
RECURSIVE fnmatch(_, _)
fnmatch(name, pat) ==
    IF pat = <<>> THEN name = <<>>
    ELSE IF Head(pat) = "*"
    THEN fnmatch(name, Tail(pat)) \/ (name # <<>> /\ fnmatch(Tail(name), pat))
    ELSE /\ name # <<>>
         /\ Head(pat) = "?" \/ Head(pat) = Head(name)
         /\ fnmatch(Tail(name), Tail(pat))

(* {k: v for k, v in attributes.items() if k in req_attrs} *)
Filtered(attributes, req_attrs) ==
    JDict(SelectSeq(attributes.items, LAMBDA kv : kv.k \in req_attrs))

(* "if passed and not fatal_err", "if not result or fatal_err" *)
PassedOnly(r) == r.passed
PassedNoFatal(r) == r.passed /\ r.fatal = <<>>

(* what a plugin does with one target of one pattern: whether it called    *)
(* validate_rule (evaluated), whether it logged "passed all checks"        *)
(* (passed), how many failure and fatal messages the evaluation left       *)
(* (messages), and whether an exception left validate_rule (raised);       *)
(* kind tells a target that is there ("present") from the placeholder of   *)
(* a pattern that matched nothing ("absent") and from attributes that      *)
(* could not be had ("noattrs")                                            *)
Evaluate(entry, kind, attributes, plugin_ops, allow, gv) ==
    Only({ [pattern |-> entry.pattern, rule |-> entry.rule, kind |-> kind,
            evaluated |-> TRUE, passed |-> ~r.raised /\ PassedNoFatal(r),
            messages |-> Len(r.failures) + Len(r.fatal), raised |-> r.raised] :
           r \in {validate_rule(Env(attributes, plugin_ops, gv, HostFiles),
                                entry.rule, FALSE, <<>>, allow)} })
NotEvaluated(entry, kind) ==
    [pattern |-> entry.pattern, rule |-> entry.rule, kind |-> kind,
     evaluated |-> FALSE, passed |-> FALSE, messages |-> 0, raised |-> FALSE]

RECURSIVE Flatten(_)
Flatten(ss) == IF ss = <<>> THEN <<>> ELSE Head(ss) \o Flatten(Tail(ss))

(* an exception of validate_rule leaves run(): nothing after it happens *)
Raises(reports) == \E i \in 1..Len(reports) : reports[i].raised
UpToRaise(reports) ==
    IF ~Raises(reports) THEN reports
    ELSE SubSeq(reports, 1, CHOOSE i \in 1..Len(reports) :
                               /\ reports[i].raised
                               /\ \A j \in 1..(i - 1) : ~reports[j].raised)

(* the outcome of run(): the integer returned (ret, read only when no      *)
(* exception left the call) and what was done target by target             *)
Ran(ret, reports) == [ret |-> ret, raised |-> Raises(reports), reports |-> reports]

(* errors += 1 (fails += 1) for every target that did not pass *)
Errors(reports) == Cardinality({i \in 1..Len(reports) : ~reports[i].passed})
Counted(all) == Only({ Ran(Errors(reports), reports) : reports \in {UpToRaise(Flatten(all))} })

(* kmod.py: KernelModulesPlugin.run, modules being _parse_modules() *)
KmodPattern(entry, modules, gv) ==
    IF \E i \in 1..Len(modules) : modules[i].name = entry.pattern
    THEN Evaluate(entry, "present",
                  Filtered(modules[CHOOSE i \in 1..Len(modules) :
                                       modules[i].name = entry.pattern].attrs,
                           get_required_attributes(entry.rule)),
                  "none", TRUE, gv)
    ELSE Evaluate(entry, "absent", JDict(<<KV("exists", JFalse)>>), "none", TRUE, gv)
KernelModulesPlugin_run(rules, modules, gv) ==
    Counted([i \in 1..Len(rules) |-> <<KmodPattern(rules[i], modules, gv)>>])

(* systemd.py: validate_systemd, units being collector.unit_attrs *)
SystemdUnit(entry, unit, gv) ==
    IF Filtered(unit.attrs, get_required_attributes(entry.rule)).items = <<>>
    THEN NotEvaluated(entry, "noattrs")
    ELSE Evaluate(entry, "present",
                  Filtered(unit.attrs, get_required_attributes(entry.rule)),
                  "none", FALSE, gv)
SystemdPattern(entry, matched_units, gv) ==
    IF matched_units = <<>>
    THEN <<Evaluate(entry, "absent", JDict(<<KV("exists", JInt(0))>>), "none", FALSE, gv)>>
    ELSE [i \in 1..Len(matched_units) |-> SystemdUnit(entry, matched_units[i], gv)]
validate_systemd(rules, units, gv) ==
    Counted([i \in 1..Len(rules) |->
        SystemdPattern(rules[i],
                       SelectSeq(units, LAMBDA u : fnmatch(u.name, rules[i].pattern)),
                       gv)])

(* processes.py: Processes.run, all_processes being what                   *)
(* collect_process_info returned for the pids of proc/                     *)
ProcessesPattern(entry, matched, gv) ==
    IF matched = <<>>
    THEN IF rule_implies_nonexistence(entry.rule)
         THEN <<Evaluate(entry, "absent", JDict(<<KV("exists", JFalse)>>), "none", TRUE, gv)>>
         ELSE <<NotEvaluated(entry, "absent")>>
    ELSE [i \in 1..Len(matched) |-> Evaluate(entry, "present", matched[i].attrs, "none", TRUE, gv)]
Processes_run(rules, all_processes, gv) ==
    Counted([i \in 1..Len(rules) |->
        ProcessesPattern(rules[i],
                         SelectSeq(all_processes,
                                   LAMBDA p : fnmatch(p.name, rules[i].pattern)),
                         gv)])

(* packages.py: PackagesPlugin.run, packages being the merged package     *)
(* data, one entry per installed version                                   *)
PackagesPattern(entry, matched, gv) ==
    IF matched = <<>>
    THEN <<Evaluate(entry, "absent", JDict(<<KV("exists", JFalse)>>), "package_ops", FALSE, gv)>>
    ELSE [i \in 1..Len(matched) |->
             Evaluate(entry, "present",
                      Filtered(matched[i].attrs, get_required_attributes(entry.rule)),
                      "package_ops", FALSE, gv)]
PackagesPlugin_run(rules, packages, gv) ==
    Counted([i \in 1..Len(rules) |->
        PackagesPattern(rules[i],
                        SelectSeq(packages, LAMBDA p : fnmatch(p.name, rules[i].pattern)),
                        gv)])

(* files.py: get_file_attrs: os.stat of a path that is not there gives     *)
(* {"exists": False}; the contents are read when the rule names            *)
(* file_contents, identical, contains or regex, and a file that cannot be  *)
(* read gives None. Of the attributes, the ones the rules below read.      *)
ContentsRequired(req_attr) ==
    req_attr \cap {"file_contents", "identical", "contains", "regex"} # {}
NoAttrs == JDict(<<>>)
get_file_attrs(path, req_attr, fs) ==
    IF path \notin DOMAIN fs THEN JDict(<<KV("exists", JFalse)>>)
    ELSE IF ContentsRequired(req_attr) /\ ~fs[path].readable THEN NoAttrs
    ELSE JDict(<<KV("exists", JTrue), KV("size", JInt(Len(fs[path].data))),
                 KV("mode", JInt(fs[path].mode))>>)

(* files.py: FilesPlugin.run; glob.glob for patterns whose wildcards stand *)
(* in the last component of the path                                       *)
GlobChars == {"*", "?", "[", "]"}
FilesPath(entry, path, fs, gv) ==
    IF get_file_attrs(path, get_required_attributes(entry.rule), fs) = NoAttrs
    THEN NotEvaluated(entry, "noattrs")
    ELSE Evaluate(entry,
                  IF path \in DOMAIN fs THEN "present" ELSE "absent",
                  get_file_attrs(path, get_required_attributes(entry.rule), fs),
                  "none", FALSE, gv)
FilesPattern(entry, matching_paths, fs, gv) ==
    IF matching_paths = <<>> THEN <<NotEvaluated(entry, "nomatch")>>
    ELSE [i \in 1..Len(matching_paths) |-> FilesPath(entry, matching_paths[i], fs, gv)]
MatchingPaths(pattern, paths) ==
    IF \E i \in 1..Len(pattern) : pattern[i] \in GlobChars
    THEN SelectSeq(paths, LAMBDA p : fnmatch(p, pattern))
    ELSE <<pattern>>
NotSupported == -1
FilesPlugin_run(rules, bp, paths, fs, gv) ==
    IF bp # "/" THEN Ran(NotSupported, <<>>)
    ELSE Counted([i \in 1..Len(rules) |->
             FilesPattern(rules[i], MatchingPaths(rules[i].pattern, paths), fs, gv)])

(* mounts.py: MountsPlugin.run, all_entries being the lines of             *)
(* proc/mounts and then of etc/fstab; errors counts the messages of the    *)
(* failed evaluations (none of them is str(rule): each begins with the     *)
(* context) and the patterns no mount point matched                        *)
MountsEntry(entry, rules, gv) ==
    IF entry.mountpoint = <<>> THEN <<>>
    ELSE [i \in 1..Len(rules) |->
             Evaluate(rules[i], "present",
                      Filtered(entry.attrs, get_required_attributes(rules[i].rule)),
                      "none", FALSE, gv)]
MountsOfPattern(entry, rules) ==
    SelectSeq(rules, LAMBDA r : fnmatch(entry.mountpoint, r.pattern))
RECURSIVE Messages(_)
Messages(reports) ==
    IF reports = <<>> THEN 0
    ELSE (IF Head(reports).passed THEN 0 ELSE Head(reports).messages)
         + Messages(Tail(reports))
Unmatched(rules, all_entries) ==
    SelectSeq(rules, LAMBDA r : ~\E i \in 1..Len(all_entries) :
                                    /\ all_entries[i].mountpoint # <<>>
                                    /\ fnmatch(all_entries[i].mountpoint, r.pattern))
MountsCounted(reports, unmatched) ==
    IF Raises(reports) THEN Ran(0, reports)
    ELSE Ran(Messages(reports) + Len(unmatched),
             reports \o [i \in 1..Len(unmatched) |-> NotEvaluated(unmatched[i], "absent")])
MountsPlugin_run(rules, all_entries, gv) ==
    Only({ MountsCounted(reports, Unmatched(rules, all_entries)) :
           reports \in {UpToRaise(Flatten([i \in 1..Len(all_entries) |->
                           MountsEntry(all_entries[i],
                                       MountsOfPattern(all_entries[i], rules), gv)]))} })

(* sysctl.py: validate_sysctl_sources: the value itself is handed to       *)
(* validate_rule, first the live one, then the ones of the config files    *)
SysctlPattern(entry, values) ==
    SelectSeq(values, LAMBDA kv : fnmatch(kv.name, entry.pattern))
SysctlReports(entry, matched, gv) ==
    IF matched = <<>> THEN <<NotEvaluated(entry, "absent")>>
    ELSE [i \in 1..Len(matched) |-> Evaluate(entry, "present", matched[i].value, "none", FALSE, gv)]
validate_sysctl_sources(rules, live_sysctl, config_sources, gv) ==
    Counted([i \in 1..Len(rules) |->
        SysctlReports(rules[i], SysctlPattern(rules[i], live_sysctl \o config_sources), gv)])

(* cmdline.py: CmdlinePlugin.run: rules is one dictionary of attributes,   *)
(* each key of it is evaluated as the rule {key: value}; the attributes    *)
(* the rules name and the command line does not have are None              *)
WithMissing(attributes, req_attrs) ==
    JDict(attributes.items
          \o [i \in 1..Len(req_attrs) |-> KV(req_attrs[i], JNone)])
SeqOf(S) == CHOOSE s \in [1..Cardinality(S) -> S] : \A x \in S : \E i \in DOMAIN s : s[i] = x
Missing(attributes, rules) ==
    SeqOf({a \in get_required_attributes(rules) : ~HasKey(attributes, a)})
Unreadable == 1
CmdlinePlugin_run(rules, cmdline, gv) ==
    IF ~cmdline.readable THEN Ran(Unreadable, <<>>)
    ELSE Counted([i \in 1..Len(rules.items) |->
             <<Evaluate([pattern |-> <<rules.items[i].k>>,
                         rule |-> JDict(<<rules.items[i]>>)],
                        "present",
                        WithMissing(cmdline.attributes, Missing(cmdline.attributes, rules)),
                        "none", TRUE, gv)>>])

(* the facts the collectors come back with, host by host: the live system, *)
(* a sosreport directory with none of the files the plugins read, and one  *)
(* with them                                                               *)
Named(name, attrs) == [name |-> name, attrs |-> attrs]
Module(state, usage_count) ==
    JDict(<<KV("exists", JTrue), KV("size", JInt(5)), KV("usage_count", JInt(usage_count)),
            KV("used_by", JList(<<>>)), KV("state", JStr(state)), KV("offset", JStr(<<"0", "x", "0">>))>>)
Unit(unit, active, sub) ==
    JDict(<<KV("unit", JStr(unit)), KV("load", JStr(<<"l", "o", "a", "d", "e", "d">>)), KV("active", JStr(active)),
            KV("sub", JStr(sub)), KV("description", JStr(<<>>)), KV("exists", JStr(<<"1">>)),
            KV("state", JStr(active \o <<"/">> \o sub))>>)
Process(name, pid) ==
    JDict(<<KV("exists", JTrue), KV("name", JStr(name)), KV("pid", JInt(pid)),
            KV("state", JStr(<<"S">>))>>)
Package(name, evr) ==
    JDict(<<KV("exists", JTrue), KV("name", JStr(name)), KV("version", JStr(evr)),
            KV("evr", JStr(evr)), KV("arch", JStr(<<"n", "o", "a", "r", "c", "h">>))>>)
Mount(mountpoint, fstype, source) ==
    [mountpoint |-> mountpoint,
     attrs |-> JDict(<<KV("exists", JTrue), KV("device", JStr(<<"/", "d", "e", "v", "/", "s", "d", "a">>)),
                       KV("mountpoint", JStr(mountpoint)), KV("fstype", JStr(fstype)),
                       KV("options", JList(<<JStr(<<"r", "w">>)>>)), KV("source", JStr(source))>>)]
ShortLine == [mountpoint |-> <<>>, attrs |-> JDict(<<>>)]
Sysctl(name, value) == [name |-> name, value |-> value]
LiveFacts ==
    [modules |-> <<Named(<<"e", "x", "t", "4">>, Module(<<"l", "i", "v", "e">>, 7)), Named(<<"x", "f", "s">>, Module(<<"l", "i", "v", "e">>, 0))>>,
     units |-> <<Named(<<"s", "s", "h", "d", ".", "s", "e", "r", "v", "i", "c", "e">>, Unit(<<"s", "s", "h", "d", ".", "s", "e", "r", "v", "i", "c", "e">>, <<"a", "c", "t", "i", "v", "e">>, <<"r", "u", "n", "n", "i", "n", "g">>)),
                 Named(<<"s", "s", "s", "d", ".", "s", "e", "r", "v", "i", "c", "e">>, Unit(<<"s", "s", "s", "d", ".", "s", "e", "r", "v", "i", "c", "e">>, <<"i", "n", "a", "c", "t", "i", "v", "e">>, <<"d", "e", "a", "d">>))>>,
     processes |-> <<Named(<<"s", "s", "h", "d">>, Process(<<"s", "s", "h", "d">>, 7)), Named(<<"s", "s", "h", "d">>, Process(<<"s", "s", "h", "d">>, 9)),
                     Named(<<"i", "n", "i", "t">>, Process(<<"i", "n", "i", "t">>, 1))>>,
     packages |-> <<Named(<<"b", "a", "s", "h">>, Package(<<"b", "a", "s", "h">>, <<"5", "-", "1">>)), Named(<<"b", "i", "n", "d">>, Package(<<"b", "i", "n", "d">>, <<"1", ":", "2", "-", "3">>))>>,
     mounts |-> <<Mount(<<"/">>, <<"e", "x", "t", "4">>, <<"m", "o", "u", "n", "t", "s">>), Mount(<<"/", "b", "o", "o", "t">>, <<"x", "f", "s">>, <<"m", "o", "u", "n", "t", "s">>),
                  ShortLine, Mount(<<"/">>, <<"e", "x", "t", "4">>, <<"f", "s", "t", "a", "b">>)>>,
     sysctl_live |-> <<Sysctl(<<"v", "m", ".", "s", "w", "a", "p", "p", "i", "n", "e", "s", "s">>, JInt(5)), Sysctl(<<"v", "m", ".", "d", "i", "r", "t", "y">>, JInt(1))>>,
     sysctl_config |-> <<Sysctl(<<"v", "m", ".", "s", "w", "a", "p", "p", "i", "n", "e", "s", "s">>, JStr(<<"5">>))>>,
     cmdline |-> [readable |-> TRUE,
                  attributes |-> JDict(<<KV("quiet", JTrue), KV("size", JStr(<<"5">>))>>)]]
BareFacts ==
    [modules |-> <<>>, units |-> <<>>, processes |-> <<>>, packages |-> <<>>,
     mounts |-> <<>>, sysctl_live |-> <<>>, sysctl_config |-> <<>>,
     cmdline |-> [readable |-> FALSE, attributes |-> JDict(<<>>)]]
SosFacts ==
    [modules |-> <<Named(<<"e", "x", "t", "4">>, Module(<<"l", "i", "v", "e">>, 7))>>,
     units |-> <<Named(<<"s", "s", "h", "d", ".", "s", "e", "r", "v", "i", "c", "e">>, Unit(<<"s", "s", "h", "d", ".", "s", "e", "r", "v", "i", "c", "e">>, <<"f", "a", "i", "l", "e", "d">>, <<"f", "a", "i", "l", "e", "d">>))>>,
     processes |-> <<Named(<<"i", "n", "i", "t">>, Process(<<"i", "n", "i", "t">>, 1))>>,
     packages |-> <<Named(<<"b", "a", "s", "h">>, Package(<<"b", "a", "s", "h">>, <<"5", "-", "1">>)), Named(<<"b", "a", "s", "h">>, Package(<<"b", "a", "s", "h">>, <<"4", "-", "9">>))>>,
     mounts |-> <<Mount(<<"/">>, <<"e", "x", "t", "4">>, <<"f", "s", "t", "a", "b">>)>>,
     sysctl_live |-> <<>>,
     sysctl_config |-> <<Sysctl(<<"v", "m", ".", "s", "w", "a", "p", "p", "i", "n", "e", "s", "s">>, JStr(<<"5">>))>>,
     cmdline |-> [readable |-> TRUE, attributes |-> JDict(<<KV("size", JStr(<<"9">>))>>)]]
Facts == [bp \in {"/", "/sos1", "/sos2"} |->
             IF bp = "/" THEN LiveFacts ELSE IF bp = "/sos1" THEN BareFacts ELSE SosFacts]
HostPaths == <<<<"/", "a">>, <<"/", "x">>>>

(* rule blocks: up to MaxRules patterns, each with its rule *)
MaxRules == 2
Entry(pattern, rule) == [pattern |-> pattern, rule |-> rule]
RuleBlocks(patterns, rules) ==
    {b \in SeqsUpTo({Entry(p, r) : p \in patterns, r \in rules}, MaxRules) :
        /\ b # <<>>
        /\ \A i, j \in 1..Len(b) : b[i].pattern = b[j].pattern => i = j}

(* the rules of the blocks: existence and non-existence in the forms       *)
(* rules take, an attribute the placeholder does not have, "or" lists      *)
(* that are empty or pass after an alternative failed fatally, a           *)
(* comparison that tells 0 from False, an ordinary comparison, a pattern   *)
(* that does not compile                                                   *)
PluginRules ==
    { Leaf1("exists", JTrue),
      Leaf1("exists", JFalse),
      Not(Leaf1("exists", JTrue)),
      Leaf1("exists", Ops1("eq", JFalse)),
      Not(Leaf1("state", JStr(<<"l", "i", "v", "e">>))),
      Or(<<>>),
      Or(<<Leaf1("nosuch", JInt(1)), Leaf1("exists", JTrue)>>),
      Leaf1("exists", Ops1("regex", JStr(<<"0">>))),
      Leaf1("size", Ops1("gt", JInt(3))),
      Leaf1("state", Ops1("regex", JStr(<<"(">>))) }
(* the sysctl rules compare the value itself *)
SysctlRules ==
    { JInt(5), Ops1("ge", JInt(3)), Ops1("exists", JTrue), Or(<<>>),
      Not(Ops1("eq", JInt(5))), Ops1("bogus", JInt(1)), Ops1("regex", JStr(<<"(">>)) }
(* the cmdline rules are one dictionary of attributes *)
CmdlineRules ==
    { JDict(<<KV("quiet", JTrue)>>),
      JDict(<<KV("size", Ops1("gt", JInt(3))), KV("debug", JNone)>>),
      JDict(<<KV("debug", JTrue), KV("quiet", Ops1("exists", JTrue))>>),
      JDict(<<KV("not", Leaf1("debug", JTrue))>>),
      JDict(<<KV("or", JList(<<>>))>>) }

Ready(name) ==
    /\ phase = "ready"
    /\ op' = name
    /\ phase' = "called"
    /\ UNCHANGED <<global_vars, base_path>>
    /\ UNCHANGED others

RunKmod ==
    /\ Ready("kmod")
    /\ \E rules \in RuleBlocks({<<"e", "x", "t", "4">>, <<"n", "f", "s">>, <<"e", "x", "t", "*">>}, PluginRules) :
          /\ args' = [rules |-> rules]
          /\ result' = KernelModulesPlugin_run(rules, Facts[base_path].modules, global_vars)

RunSystemd ==
    /\ Ready("systemd")
    /\ \E rules \in RuleBlocks({<<"s", "s", "h", "d", ".", "s", "e", "r", "v", "i", "c", "e">>, <<"n", "f", "s", ".", "s", "e", "r", "v", "i", "c", "e">>, <<"s", "*">>}, PluginRules) :
          /\ args' = [rules |-> rules]
          /\ result' = validate_systemd(rules, Facts[base_path].units, global_vars)

RunProcesses ==
    /\ Ready("processes")
    /\ \E rules \in RuleBlocks({<<"i", "n", "i", "t">>, <<"n", "f", "s", "d">>, <<"s", "s", "h", "?">>}, PluginRules) :
          /\ args' = [rules |-> rules]
          /\ result' = Processes_run(rules, Facts[base_path].processes, global_vars)

RunPackages ==
    /\ Ready("packages")
    /\ \E rules \in RuleBlocks({<<"b", "a", "s", "h">>, <<"n", "f", "s">>, <<"b", "*">>}, PluginRules) :
          /\ args' = [rules |-> rules]
          /\ result' = PackagesPlugin_run(rules, Facts[base_path].packages, global_vars)

RunFiles ==
    /\ Ready("files")
    /\ \E rules \in RuleBlocks({<<"/", "a">>, <<"/", "n", "o", "p", "e">>, <<"/", "*">>, <<"/", "n", "*">>}, PluginRules) :
          /\ args' = [rules |-> rules]
          /\ result' = FilesPlugin_run(rules, base_path, HostPaths, HostFiles, global_vars)

RunMounts ==
    /\ Ready("mounts")
    /\ \E rules \in RuleBlocks({<<"/">>, <<"/", "n", "f", "s">>, <<"/", "*">>}, PluginRules) :
          /\ args' = [rules |-> rules]
          /\ result' = MountsPlugin_run(rules, Facts[base_path].mounts, global_vars)

RunSysctl ==
    /\ Ready("sysctl")
    /\ \E rules \in RuleBlocks({<<"v", "m", ".", "s", "w", "a", "p", "p", "i", "n", "e", "s", "s">>, <<"v", "m", ".", "n", "o", "s", "u", "c", "h">>, <<"v", "m", ".", "*">>}, SysctlRules) :
          /\ args' = [rules |-> rules]
          /\ result' = validate_sysctl_sources(rules, Facts[base_path].sysctl_live,
                                               Facts[base_path].sysctl_config, global_vars)

RunCmdline ==
    /\ Ready("cmdline")
    /\ \E rules \in CmdlineRules :
          /\ args' = [rules |-> [i \in 1..Len(rules.items) |->
                                   Entry(<<rules.items[i].k>>, JDict(<<rules.items[i]>>))]]
          /\ result' = CmdlinePlugin_run(rules, Facts[base_path].cmdline, global_vars)

(* __main__.py main(): err = plugin.run(rules[name], base_path=...) for    *)
(* the plugins the rules file names                                        *)
PluginNext ==
    \/ HostInit
    \/ RunKmod
    \/ RunSystemd
    \/ RunProcesses
    \/ RunPackages
    \/ RunFiles
    \/ RunMounts
    \/ RunSysctl
    \/ RunCmdline
    \/ Return

PluginSpec == Init /\ [][PluginNext]_vars

----------------------------------------------------------------------------
(* Properties of the rule engine *)

(* what a plugin makes of an evaluation: the rule passed and fatal_err     *)
(* stayed empty (kmod.py: "if not passed or fatal_err")                    *)
Verdict(r) == r.passed /\ r.fatal = <<>>

C2_VerdictDeMorgan ==
    op = "de_morgan" =>
        /\ (~result.not_and.raised /\ ~result.or_nots.raised)
              => (Verdict(result.not_and) <=> Verdict(result.or_nots))
        /\ (~result.not_or.raised /\ ~result.and_nots.raised)
              => (Verdict(result.not_or) <=> Verdict(result.and_nots))

(* C2, amended: the verdict is the same for {not: {or: [A, B]}} and        *)
(* {and: [{not: A}, {not: B}]}; for {not: {and: [A, B]}} and               *)
(* {or: [{not: A}, {not: B}]} it differs exactly when A fails without a    *)
(* fatal error and B records one: "or" stops at {not: A} and never         *)
(* evaluates B, so that the "or" form passes and the "and" form fails.     *)
OrSkipsFatal(r) == ~r.a.passed /\ r.a.fatal = <<>> /\ r.b.fatal # <<>>
C2_VerdictDeMorganAmended ==
    op = "de_morgan" =>
        /\ (~result.not_and.raised /\ ~result.or_nots.raised)
              => /\ (Verdict(result.not_and) <=> Verdict(result.or_nots))
                        <=> ~OrSkipsFatal(result)
                 /\ OrSkipsFatal(result)
                        => Verdict(result.or_nots) /\ ~Verdict(result.not_and)
        /\ (~result.not_or.raised /\ ~result.and_nots.raised)
              => (Verdict(result.not_or) <=> Verdict(result.and_nots))

(* A = {exists: False} fails on a loaded module, B names an attribute the  *)
(* module does not have                                                    *)
C2_Witness ==
    /\ op = "de_morgan"
    /\ args.attributes = AttrModule
    /\ args.A = Leaf1("exists", JFalse)
    /\ args.B = Leaf1("nosuch", JInt(1))
    /\ ~result.not_and.raised /\ ~result.or_nots.raised
    /\ Verdict(result.or_nots)
    /\ result.not_and.passed /\ result.not_and.fatal # <<>>

(* C3: on an attribute dictionary with an exists entry, a rule requiring   *)
(* non-existence, {exists: false} or {not: {exists: true}}, passes exactly *)
(* when the entry is False (or 0, which Python holds equal to False and    *)
(* the systemd plugin stores).                                             *)
C3_NonExistence ==
    ( /\ op = "validate_rule"
      /\ args.attributes.ty = "dict"
      /\ HasKey(args.attributes, "exists")
      /\ args.rule \in {Leaf1("exists", JFalse), Not(Leaf1("exists", JTrue))} )
    => /\ ~result.raised
       /\ result.passed <=> Get(args.attributes, "exists") \in {JFalse, JInt(0)}

(* {not: {exists: true}} on a systemd unit, whose exists entry is "1" *)
C3_Witness ==
    /\ op = "validate_rule"
    /\ args.attributes = AttrUnit
    /\ args.rule = Not(Leaf1("exists", JTrue))
    /\ ~result.passed

(* the outcome of a member of the rule evaluated on its own *)
Passes(attributes, cond) ==
    LET r == validate_rule(HostEnv(attributes, "none"), cond, FALSE, <<>>, FALSE)
    IN ~r.raised /\ r.passed
Holds(attributes, name, cond) ==
    /\ HasKey(attributes, name)
    /\ compare(Get(attributes, name), cond, <<>>, "none", global_vars, HostFiles).ok

(* C5: the boolean follows the rule tree: {and: [c1..cn]} passes iff every *)
(* ci passes, {or: [c1..cn]} iff some ci passes, {not: c} iff c does not   *)
(* pass, an attribute leaf iff every attribute it names is in the          *)
(* dictionary and its comparison holds.                                    *)
C5_RuleTree ==
    ( /\ op = "validate_rule"
      /\ args.attributes.ty = "dict"
      /\ args.rule.ty = "dict"
      /\ ~result.raised )
    => LET rule == args.rule
           attributes == args.attributes
       IN IF HasKey(rule, "and")
          THEN result.passed <=>
                  \A i \in 1..Len(Get(rule, "and").items) :
                      Passes(attributes, Get(rule, "and").items[i].v)
          ELSE IF HasKey(rule, "or")
          THEN result.passed <=>
                  \E i \in 1..Len(Get(rule, "or").items) :
                      Passes(attributes, Get(rule, "or").items[i].v)
          ELSE IF HasKey(rule, "not")
          THEN result.passed <=> ~Passes(attributes, Get(rule, "not"))
          ELSE result.passed <=>
                  \A i \in 1..Len(rule.items) :
                      Holds(attributes, rule.items[i].k, rule.items[i].v)

(* a leaf of two attributes whose first comparison fails and whose second  *)
(* holds                                                                   *)
C5_Witness ==
    /\ op = "validate_rule"
    /\ args.attributes = AttrModule
    /\ args.rule = JDict(<<KV("exists", JFalse), KV("size", JInt(5))>>)
    /\ ~result.raised
    /\ ~result.passed

(* C6: whenever validate_rule returns True, the failure list it returns    *)
(* with it is empty.                                                       *)
C6_PassedWithoutFailures ==
    (op = "validate_rule" /\ ~result.raised /\ result.passed)
        => result.failures = <<>>

(* an "or" that passes on its second member after the first failed with a  *)
(* failure message                                                         *)
C6_Witness ==
    /\ op = "validate_rule"
    /\ args.rule.ty = "dict"
    /\ HasKey(args.rule, "or")
    /\ Len(Get(args.rule, "or").items) = 2
    /\ LET r == validate_rule(HostEnv(args.attributes, "none"),
                              Get(args.rule, "or").items[1].v, FALSE, <<>>, FALSE)
       IN ~r.raised /\ ~r.passed /\ r.failures # <<>>
    /\ ~result.raised
    /\ result.passed

(* C7: compare is idempotent under repeated evaluation: two calls in       *)
(* succession with the same value, rule-set, plugin operators and global   *)
(* variables return the same boolean (or both raise).                      *)
C7_CompareIdempotent ==
    op = "compare_again" =>
        /\ result.second.raised <=> result.first.raised
        /\ ~result.first.raised => (result.second.ok <=> result.first.ok)

(* the first call left an error in the caller's list, which was empty, and *)
(* the second call added its own                                           *)
C7_Witness ==
    /\ op = "compare_again"
    /\ ~result.first.raised
    /\ args.fatal_err = <<>>
    /\ result.first.fatal # <<>>
    /\ Len(result.second.fatal) > Len(result.first.fatal)

(* a tree of numeric literals and of the operators VALID_OPS lists *)
RECURSIVE OnlyNumbersAndListedOps(_)
OnlyNumbersAndListedOps(node) ==
    \/ node.k = "Num" /\ IsNumber(node.v) /\ node.v.ty # "bool"
    \/ /\ node.k = "BinOp"
       /\ node.op \in {"+", "-", "*", "/", "//", "%", "**", "<<", ">>", "&", "|", "^"}
       /\ OnlyNumbersAndListedOps(node.kids[1])
       /\ OnlyNumbersAndListedOps(node.kids[2])
    \/ /\ node.k = "UnaryOp"
       /\ node.op \in {"+", "-"}
       /\ OnlyNumbersAndListedOps(node.kids[1])

(* the first operator of the rule-set has an expression on its right *)
ExprFirst(rule) ==
    /\ rule.ty = "dict"
    /\ rule.items # <<>>
    /\ rule.items[1].v.ty = "dict"
    /\ HasKey(rule.items[1].v, "expr")
    /\ Get(rule.items[1].v, "expr").ty = "str"

(* C8: eval_expr produces a value only for expressions built solely from   *)
(* numeric literals and the operators of VALID_OPS; for any other          *)
(* expression (after substitution) it raises, and compare, called with a   *)
(* fatal_err list, then returns False and appends a fatal error.           *)
C8_RestrictedEvaluation ==
    /\ op = "eval_expr" =>
          /\ result.eval.ok =>
                /\ result.tree.ok
                /\ OnlyNumbersAndListedOps(result.tree.node)
                /\ IsNumber(result.eval.v)
          /\ ~(result.tree.ok /\ OnlyNumbersAndListedOps(result.tree.node))
                => ~result.eval.ok
    /\ ( /\ op = "compare"
         /\ ExprFirst(args.rule)
         /\ ~eval_expr(Get(args.rule.items[1].v, "expr").s, args.val, global_vars).ok )
       => /\ ~result.first.raised
          /\ ~result.first.ok
          /\ result.first.fatal = Append(args.fatal_err, "Error evaluating expression")

(* "~$value" on 3: the text parses, "~" is not in VALID_OPS *)
C8_Witness ==
    /\ op = "compare"
    /\ args.val = JInt(3)
    /\ args.rule = Ops1("eq", Expr(<<"~", "$", "v", "a", "l", "u", "e">>))
    /\ ast_parse(Substitute(<<"~", "$", "v", "a", "l", "u", "e">>, args.val, global_vars)).ok
    /\ ~result.first.ok
    /\ result.first.fatal # args.fatal_err

(* the substitution as eval_expr documents it: "$value = left side value,  *)
(* $xyz: global_vars.get(xyz, "")"                                         *)
RECURSIVE DocumentedSubstitute(_, _, _)
DocumentedSubstitute(e, value, gv) ==
    IF e = <<>> THEN <<>>
    ELSE IF Head(e) = "$" /\ Len(e) >= 2 /\ e[2] \in IdStart
    THEN LET len == IdRun(Tail(e))
             name == SubSeq(e, 2, 1 + len)
         IN (IF name = <<"v", "a", "l", "u", "e">> THEN Str(value)
             ELSE IF name \in DOMAIN gv THEN Str(gv[name]) ELSE <<>>)
            \o DocumentedSubstitute(SubSeq(e, 2 + len, Len(e)), value, gv)
    ELSE <<Head(e)>> \o DocumentedSubstitute(Tail(e), value, gv)

(* C9: in eval_expr every $value is replaced by the left-side value, every *)
(* other $name by global_vars[name], or by the empty string when name is   *)
(* not a global variable.                                                  *)
C9_Substitution ==
    op = "eval_expr" =>
        result.text = DocumentedSubstitute(args.expr, args.value, global_vars)

----------------------------------------------------------------------------
(* Properties of the plugins *)

(* the plugins that look for named things which may not be there *)
AbsentPlugins == {"kmod", "systemd", "processes", "packages"}

(* the rule passes, without a fatal error, when evaluated against record   *)
(* the way the plugin evaluates rules: packages with its version           *)
(* operators, kmod and processes with allow_missing_attrs                  *)
PassesOn(record, rule, name) ==
    Only({ ~r.raised /\ Verdict(r) :
           r \in {validate_rule(HostEnv(record, IF name = "packages" THEN "package_ops" ELSE "none"),
                                rule, FALSE, <<>>, name \in {"kmod", "processes"})} })

(* C4 as stated: when a pattern of the rule block matches no package,      *)
(* kernel module, systemd unit or process, the plugin evaluates the rule   *)
(* and reports it passed exactly when the rule passes against a record     *)
(* that holds only exists: False.                                          *)
C4_AbsentEvaluated ==
    op \in AbsentPlugins =>
        \A i \in 1..Len(result.reports) :
            result.reports[i].kind = "absent" =>
                /\ result.reports[i].evaluated
                /\ result.reports[i].passed
                      <=> PassesOn(AttrAbsent, result.reports[i].rule, op)

(* C4, amended: for a pattern that matches nothing, kmod and packages      *)
(* evaluate the rule against {exists: False} and systemd against           *)
(* {exists: 0}, and report it passed exactly when that evaluation passes   *)
(* without a fatal error; processes evaluates the rule, against            *)
(* {exists: False}, only when rule_implies_nonexistence(rule), and         *)
(* reports every other rule failed without evaluating it.                  *)
C4_AbsentAmended ==
    op \in AbsentPlugins =>
        \A i \in 1..Len(result.reports) :
            result.reports[i].kind = "absent" =>
                /\ result.reports[i].evaluated
                      <=> (op = "processes" => rule_implies_nonexistence(result.reports[i].rule))
                /\ result.reports[i].passed
                      <=> /\ result.reports[i].evaluated
                          /\ PassesOn(IF op = "systemd" THEN AttrAbsent0 ELSE AttrAbsent,
                                      result.reports[i].rule, op)

(* a package pattern matched nothing, its rule was evaluated and reported  *)
(* passed, and another pattern of the block was reported failed            *)
C4_Witness ==
    /\ op = "packages"
    /\ \E i, j \in 1..Len(result.reports) :
          /\ result.reports[i].kind = "absent"
          /\ result.reports[i].evaluated /\ result.reports[i].passed
          /\ ~result.reports[j].passed

(* every rule of the block was evaluated, for every target it has, and    *)
(* reported passed                                                         *)
PluginNames == AbsentPlugins \cup {"files", "mounts", "sysctl", "cmdline"}
EveryRulePassed ==
    \A e \in 1..Len(args.rules) :
        /\ \E i \in 1..Len(result.reports) : result.reports[i].pattern = args.rules[e].pattern
        /\ \A i \in 1..Len(result.reports) :
              result.reports[i].pattern = args.rules[e].pattern
                  => result.reports[i].evaluated /\ result.reports[i].passed

(* C10 as stated: whenever a plugin's run() returns, it returns the number *)
(* of failures, a non-negative integer that is 0 exactly when every rule   *)
(* of the rule block was evaluated and passed without a fatal error.       *)
C10_FailureCount ==
    (op \in PluginNames /\ ~result.raised) =>
        /\ result.ret >= 0
        /\ result.ret = 0 <=> EveryRulePassed

----------------------------------------------------------------------------
(* Part II: lkce.py, the lock file of __main__                             *)
(*                                                                         *)
(* Each lkce process is a pid; its steps are the system calls of the       *)
(* __main__ block, and the processes of the system interleave between      *)
(* them.  A file is an inode: open() of a path that names no inode makes   *)
(* a new one, flock() locks the inode, os.remove() takes the name away     *)
(* and leaves the inode to those that have it open.                        *)

(* the lowest number no open file and no name refers to *)
NewInode(used) == CHOOSE i \in Inodes \ used : \A j \in Inodes \ used : i <= j

(* open(path, "w"): the inode the path names, a new one when it names none *)
OpenW(fhs, named) == IF named = 0 THEN NewInode({fhs[p] : p \in DOMAIN fhs}) ELSE named

(* the process ends: the kernel closes its file, which gives up its lock *)
Exit(p) ==
    /\ lkce_pc' = [lkce_pc EXCEPT ![p] = "none"]
    /\ FH' = [FH EXCEPT ![p] = 0]
    /\ lkce_flock' = [i \in Inodes |-> IF lkce_flock[i] = p THEN 0 ELSE lkce_flock[i]]

(* "oled lkce ..." is started as root *)
LkceStart(p) ==
    /\ lkce_pc[p] = "none"
    /\ lkce_pc' = [lkce_pc EXCEPT ![p] = "start"]
    /\ UNCHANGED <<FH, LOCK_FILE, lkce_flock, rest_lkce_main>>

(* FH = open(LOCK_FILE, "w"); an OSError of makedirs or open ends the      *)
(* process                                                                 *)
LkceOpen(p) ==
    /\ lkce_pc[p] = "start"
    /\ \E oserror \in BOOLEAN :
          IF oserror
          THEN Exit(p) /\ UNCHANGED LOCK_FILE
          ELSE /\ FH' = [FH EXCEPT ![p] = OpenW(FH, LOCK_FILE)]
               /\ LOCK_FILE' = OpenW(FH, LOCK_FILE)
               /\ lkce_pc' = [lkce_pc EXCEPT ![p] = "opened"]
               /\ UNCHANGED lkce_flock
    /\ UNCHANGED rest_lkce_main

(* fcntl.flock(FH, LOCK_EX | LOCK_NB): taken when no other open file holds *)
(* the lock of the inode, else "another instance of lkce is running" and   *)
(* sys.exit()                                                              *)
FlockTaken(p) == lkce_flock[FH[p]] = 0
LkceFlock(p) ==
    /\ lkce_pc[p] = "opened"
    /\ IF FlockTaken(p)
       THEN /\ lkce_flock' = [lkce_flock EXCEPT ![FH[p]] = p]
            /\ lkce_pc' = [lkce_pc EXCEPT ![p] = "main"]
            /\ UNCHANGED FH
       ELSE Exit(p)
    /\ UNCHANGED <<LOCK_FILE, rest_lkce_main>>

(* main() returns, or leaves by sys.exit() (usage) or by an exception;     *)
(* KeyboardInterrupt is caught and the process ends after the message      *)
LkceMain(p) ==
    /\ lkce_pc[p] = "main"
    /\ \E returns \in BOOLEAN :
          IF returns
          THEN lkce_pc' = [lkce_pc EXCEPT ![p] = "returned"] /\ UNCHANGED <<FH, lkce_flock>>
          ELSE Exit(p)
    /\ UNCHANGED <<LOCK_FILE, rest_lkce_main>>

(* FH.close() *)
LkceClose(p) ==
    /\ lkce_pc[p] = "returned"
    /\ lkce_flock' = [lkce_flock EXCEPT ![FH[p]] = 0]
    /\ FH' = [FH EXCEPT ![p] = 0]
    /\ lkce_pc' = [lkce_pc EXCEPT ![p] = "closed"]
    /\ UNCHANGED <<LOCK_FILE, rest_lkce_main>>

(* os.remove(LOCK_FILE), the last statement: the name goes, or the call    *)
(* raises FileNotFoundError; the process ends either way                   *)
LkceRemove(p) ==
    /\ lkce_pc[p] = "closed"
    /\ LOCK_FILE' = 0
    /\ Exit(p)
    /\ UNCHANGED rest_lkce_main

LkceLockNext ==
    \E p \in Pids :
        \/ LkceStart(p)
        \/ LkceOpen(p)
        \/ LkceFlock(p)
        \/ LkceMain(p)
        \/ LkceClose(p)
        \/ LkceRemove(p)

LkceLockSpec == Init /\ [][LkceLockNext]_vars

(* between a successful flock and the end of main() *)
InMain(p) == lkce_pc[p] = "main"

(* C11: the lkce lock file prevents duplicate instances: no two processes  *)
(* are at the same time between a successful flock and the end of main()   *)
C11_OneInstance == \A p \in Pids, q \in Pids : InMain(p) /\ InMain(q) => p = q

----------------------------------------------------------------------------
(* memtracker.py: the lock file, the signal handler and the sampling loop  *)
(*                                                                         *)
(* The steps of a process are the statements of the script that touch      *)
(* what other processes can see; a signal is delivered between two of      *)
(* them, and cleanup() then runs statement by statement before the         *)
(* script goes on.                                                         *)

(* the files memtracker processes have open *)
MtOpenFiles == {mt[p].lock_fd : p \in {q \in Trackers : mt[q].lock_fd # 0 /\ ~mt[q].closed}}

(* a lock is given up when the file it was taken through is closed *)
MtReleased(p) == [i \in Inodes |-> IF mt_flock[i] = p THEN 0 ELSE mt_flock[i]]

(* the process ends with a status; the kernel closes its files *)
MtExit(p, status) ==
    /\ mt' = [mt EXCEPT ![p].pc = "exited", ![p].closed = TRUE, ![p].handler = 0, ![p].status = status]
    /\ mt_flock' = MtReleased(p)

(* sys.exit(status) or an exception, raised where the script is: the bare  *)
(* "except:" of run_cmd catches it and run_cmd returns; that of            *)
(* disk_space_available catches it and returns False, upon which the       *)
(* script exits with 1; anywhere else the process ends, an exception other *)
(* than SystemExit giving status 1                                         *)
MtRaise(p, status) ==
    IF mt[p].pc = "run_cmd"
    THEN /\ mt' = [mt EXCEPT ![p].pc = "sleep", ![p].handler = 0]
         /\ UNCHANGED mt_flock
    ELSE MtExit(p, IF mt[p].pc = "disk" THEN 1 ELSE status)

(* the script is at pc and not inside the handler *)
MtAt(p, pc) == mt[p].pc = pc /\ mt[p].handler = 0

MtGoto(p, pc) == mt' = [mt EXCEPT ![p].pc = pc]

(* memtracker is started as root with a valid interval *)
MtStart(p) ==
    /\ mt[p].pc \in {"none", "exited"}
    /\ mt' = [mt EXCEPT ![p] = [MtFresh EXCEPT !.pc = "create_lock"]]
    /\ UNCHANGED <<parent_dir, mt_lock, mt_flock, LOGROTATEFILE, rest_memtracker>>

(* create_lock: if not os.path.exists(parent_dir) *)
MtExists(p) ==
    /\ MtAt(p, "create_lock")
    /\ MtGoto(p, IF parent_dir THEN "open" ELSE "makedirs")
    /\ UNCHANGED <<parent_dir, mt_lock, mt_flock, LOGROTATEFILE, rest_memtracker>>

(* create_lock: os.makedirs(parent_dir, mode=0o700); on any exception      *)
(* (the directory has appeared meanwhile, or it cannot be made) the        *)
(* function returns with lock_fd = None, and the script goes on            *)
MtMakedirs(p) ==
    /\ MtAt(p, "makedirs")
    /\ \E possible \in BOOLEAN :
          IF possible /\ ~parent_dir
          THEN parent_dir' = TRUE /\ MtGoto(p, "open")
          ELSE UNCHANGED parent_dir /\ MtGoto(p, "signal")
    /\ UNCHANGED <<mt_lock, mt_flock, LOGROTATEFILE, rest_memtracker>>

(* create_lock: lock_fd = open(lock_filename, "w") *)
MtOpen(p) ==
    /\ MtAt(p, "open")
    /\ \E inode \in {IF mt_lock = 0 THEN NewInode(MtOpenFiles) ELSE mt_lock} :
          /\ mt_lock' = inode
          /\ mt' = [mt EXCEPT ![p].lock_fd = inode, ![p].pc = "flock"]
    /\ UNCHANGED <<parent_dir, mt_flock, LOGROTATEFILE, rest_memtracker>>

(* create_lock: fcntl.flock(lock_fd, LOCK_EX | LOCK_NB); "Another instance *)
(* of this script is running" and sys.exit(1) when it is refused           *)
MtFlock(p) ==
    /\ MtAt(p, "flock")
    /\ IF mt_flock[mt[p].lock_fd] = 0
       THEN /\ mt_flock' = [mt_flock EXCEPT ![mt[p].lock_fd] = p]
            /\ MtGoto(p, "signal")
       ELSE MtExit(p, 1)
    /\ UNCHANGED <<parent_dir, mt_lock, LOGROTATEFILE, rest_memtracker>>

(* signal.signal(SIGINT, cleanup), and the same for SIGHUP and SIGQUIT *)
MtSignal(p) ==
    /\ MtAt(p, "signal")
    /\ mt' = [mt EXCEPT ![p].handlers = TRUE, ![p].pc = "logrotate"]
    /\ UNCHANGED <<parent_dir, mt_lock, mt_flock, LOGROTATEFILE, rest_memtracker>>

(* setup_logrotate() writes LOGROTATEFILE *)
setup_logrotate(p) ==
    /\ MtAt(p, "logrotate")
    /\ LOGROTATEFILE' = TRUE
    /\ MtGoto(p, "disk")
    /\ UNCHANGED <<parent_dir, mt_lock, mt_flock, rest_memtracker>>

(* disk_space_available(parent_dir), then the log file is opened; without  *)
(* enough space the script exits with 1                                    *)
MtOpenLogfile(p) ==
    /\ MtAt(p, "disk")
    /\ \E enough \in BOOLEAN :
          IF enough
          THEN MtGoto(p, "get_files") /\ UNCHANGED mt_flock
          ELSE MtExit(p, 1)
    /\ UNCHANGED <<parent_dir, mt_lock, LOGROTATEFILE, rest_memtracker>>

(* while True: get_files(outf) ... *)
get_files(p) ==
    /\ MtAt(p, "get_files")
    /\ MtGoto(p, "run_cmd")
    /\ UNCHANGED <<parent_dir, mt_lock, mt_flock, LOGROTATEFILE, rest_memtracker>>

(* ... run_cmd(CMD1, outf), run_cmd(CMD2, outf) ... *)
run_cmd(p) ==
    /\ MtAt(p, "run_cmd")
    /\ MtGoto(p, "sleep")
    /\ UNCHANGED <<parent_dir, mt_lock, mt_flock, LOGROTATEFILE, rest_memtracker>>

(* ... time.sleep(args.interval*60); rotate_logfile() *)
rotate_logfile(p) ==
    /\ MtAt(p, "sleep")
    /\ MtGoto(p, "get_files")
    /\ UNCHANGED <<parent_dir, mt_lock, mt_flock, LOGROTATEFILE, rest_memtracker>>

(* SIGINT, SIGHUP or SIGQUIT is delivered to a process whose handlers are  *)
(* installed: cleanup(signum, frame) is entered                            *)
MtInterrupt(p) ==
    /\ mt[p].handlers
    /\ mt[p].handler = 0
    /\ mt[p].pc # "exited"
    /\ mt' = [mt EXCEPT ![p].handler = 1, ![p].signalled = TRUE, ![p].done = {}]
    /\ UNCHANGED <<parent_dir, mt_lock, mt_flock, LOGROTATEFILE, rest_memtracker>>

(* cleanup: os.remove(LOGROTATEFILE); FileNotFoundError when it is not     *)
(* there                                                                   *)
CleanupLogrotate(p) ==
    /\ mt[p].handler = 1
    /\ IF LOGROTATEFILE
       THEN /\ LOGROTATEFILE' = FALSE
            /\ mt' = [mt EXCEPT ![p].handler = 2, ![p].done = @ \cup {"logrotate"}]
            /\ UNCHANGED mt_flock
       ELSE MtRaise(p, 1) /\ UNCHANGED LOGROTATEFILE
    /\ UNCHANGED <<parent_dir, mt_lock, rest_memtracker>>

(* cleanup: lock_fd.close(); AttributeError when lock_fd is None *)
CleanupClose(p) ==
    /\ mt[p].handler = 2
    /\ IF mt[p].lock_fd # 0
       THEN /\ mt' = [mt EXCEPT ![p].handler = 3, ![p].closed = TRUE, ![p].done = @ \cup {"close"}]
            /\ mt_flock' = MtReleased(p)
       ELSE MtRaise(p, 1)
    /\ UNCHANGED <<parent_dir, mt_lock, LOGROTATEFILE, rest_memtracker>>

(* cleanup: os.remove(lock_filename); FileNotFoundError when the name is   *)
(* not there                                                               *)
CleanupRemove(p) ==
    /\ mt[p].handler = 3
    /\ IF mt_lock # 0
       THEN /\ mt_lock' = 0
            /\ mt' = [mt EXCEPT ![p].handler = 4, ![p].done = @ \cup {"lock"}]
            /\ UNCHANGED mt_flock
       ELSE MtRaise(p, 1) /\ UNCHANGED mt_lock
    /\ UNCHANGED <<parent_dir, LOGROTATEFILE, rest_memtracker>>

(* cleanup: sys.exit(0) *)
CleanupExit(p) ==
    /\ mt[p].handler = 4
    /\ MtRaise(p, 0)
    /\ UNCHANGED <<parent_dir, mt_lock, LOGROTATEFILE, rest_memtracker>>

MemtrackerNext ==
    \E p \in Trackers :
        \/ MtStart(p)
        \/ MtExists(p)
        \/ MtMakedirs(p)
        \/ MtOpen(p)
        \/ MtFlock(p)
        \/ MtSignal(p)
        \/ setup_logrotate(p)
        \/ MtOpenLogfile(p)
        \/ get_files(p)
        \/ run_cmd(p)
        \/ rotate_logfile(p)
        \/ MtInterrupt(p)
        \/ CleanupLogrotate(p)
        \/ CleanupClose(p)
        \/ CleanupRemove(p)
        \/ CleanupExit(p)

MemtrackerSpec == Init /\ [][MemtrackerNext]_vars

(* in the sampling loop *)
Sampling(p) == mt[p].pc \in {"get_files", "run_cmd", "sleep"} /\ mt[p].handler = 0

(* C12: the memtracker lock file prevents multiple instances: at most one  *)
(* memtracker process is in the sampling loop at any time                  *)
C12_OneSampler == \A p \in Trackers, q \in Trackers : Sampling(p) /\ Sampling(q) => p = q

(* cleanup() has run to its end in p: what it did, and how the process     *)
(* ended                                                                   *)
Handled(p) == mt[p].signalled /\ mt[p].handler = 0

(* C13: a process that received SIGINT, SIGHUP or SIGQUIT with its         *)
(* handlers installed has removed the logrotate configuration file,        *)
(* closed and removed the lock file, and has exited with status 0          *)
C13_SignalCleanup == \A p \in Trackers : Handled(p) => mt[p].pc = "exited" /\ mt[p].status = 0 /\ mt[p].done = {"logrotate", "close", "lock"}


----------------------------------------------------------------------------
(* lkce.py: the Lkce class and the commands of main()                      *)
(*                                                                         *)
(* A command runs on the files of the system (lkce_sys).  While it runs,   *)
(* m is the machine: the files (w), the Lkce object (self), how many times *)
(* kdump has been restarted (n), what the last call returned (ret) and     *)
(* the record of the last restart_kdump_service_failsafe.  What the        *)
(* system answers is e: whether each restart of kdump works and whether    *)
(* the kdump_pre script can be generated.                                  *)

(* s.split(c, maxsplit=1) *)
SplitOnce(s, c) == IF Find(s, c) = 0 THEN <<s>> ELSE <<SubSeq(s, 1, Find(s, c) - 1), SubSeq(s, Find(s, c) + 1, Len(s))>>

(* re.split(c, s) *)
RECURSIVE SplitAll(_, _)
SplitAll(s, c) == IF Find(s, c) = 0 THEN <<s>> ELSE <<SubSeq(s, 1, Find(s, c) - 1)>> \o SplitAll(SubSeq(s, Find(s, c) + 1, Len(s)), c)

(* s.strip(chars) *)
RECURSIVE StripChars(_, _)
StripChars(s, chars) ==
    IF s # <<>> /\ Head(s) \in chars THEN StripChars(Tail(s), chars)
    ELSE IF s # <<>> /\ s[Len(s)] \in chars THEN StripChars(SubSeq(s, 1, Len(s) - 1), chars)
    ELSE s

(* re.sub(r"\s+", "", line) *)
Whitespace == {" ", "\t", "\n"}
IsNotSpace(c) == c \notin Whitespace
RemoveSpace(s) == SelectSeq(s, IsNotSpace)

StartsWith(s, prefix) == Len(s) >= Len(prefix) /\ SubSeq(s, 1, Len(prefix)) = prefix

(* the settings lkce.conf holds, by their keys *)
report_cmd == <<"r", "e", "p", "o", "r", "t", "_", "c", "m", "d">>
vmlinux_path == <<"v", "m", "l", "i", "n", "u", "x", "_", "p", "a", "t", "h">>
crash_cmds_file == <<"c", "r", "a", "s", "h", "_", "c", "m", "d", "s", "_", "f", "i", "l", "e">>
corelens_args_file == <<"c", "o", "r", "e", "l", "e", "n", "s", "_", "a", "r", "g", "s", "_", "f", "i", "l", "e">>
lkce_outdir == <<"l", "k", "c", "e", "_", "o", "u", "t", "d", "i", "r">>
vmcore == <<"v", "m", "c", "o", "r", "e">>
max_out_files == <<"m", "a", "x", "_", "o", "u", "t", "_", "f", "i", "l", "e", "s">>

(* Lkce.set_defaults: the settings as a function of their keys, and the    *)
(* flags of the object                                                     *)
DefaultSettings ==
    (report_cmd :> <<"c", "o", "r", "e", "l", "e", "n", "s">>) @@ (vmlinux_path :> <<"/", "u", "s", "r", "/", "l", "i", "b", "/", "d", "e", "b", "u", "g", "/", "l", "i", "b", "/", "m", "o", "d", "u", "l", "e", "s", "/", "5", ".", "1", "5", "/", "v", "m", "l", "i", "n", "u", "x">>)
    @@ (crash_cmds_file :> <<"/", "e", "t", "c", "/", "o", "l", "e", "d", "/", "l", "k", "c", "e", "/", "c", "r", "a", "s", "h", "_", "c", "m", "d", "s", "_", "f", "i", "l", "e">>)
    @@ (corelens_args_file :> <<"/", "e", "t", "c", "/", "o", "l", "e", "d", "/", "l", "k", "c", "e", "/", "c", "o", "r", "e", "l", "e", "n", "s", "_", "a", "r", "g", "s", "_", "f", "i", "l", "e">>)
    @@ (lkce_outdir :> <<"/", "v", "a", "r", "/", "o", "l", "e", "d", "/", "l", "k", "c", "e">>) @@ (vmcore :> <<"y", "e", "s">>) @@ (max_out_files :> <<"5", "0">>)

set_defaults(self, w) == [self EXCEPT !.settings = DefaultSettings, !.has_kdump_d = w.pre_d]

(* Lkce.read_config: lines that start with "#" are skipped, white space is *)
(* removed, the line is split at every "=", and the first key (in the      *)
(* order of the elif chain) that occurs in the first part takes the second *)
(* part unless that is empty; a line that names a key and has no "="       *)
(* raises IndexError                                                       *)
ReadOrder == <<report_cmd, corelens_args_file, crash_cmds_file, lkce_outdir, vmlinux_path, vmcore, max_out_files>>
ReadKey(entry) == IF \E i \in 1..Len(ReadOrder) : Contains(entry[1], ReadOrder[i]) THEN ReadOrder[CHOOSE i \in 1..Len(ReadOrder) : Contains(entry[1], ReadOrder[i]) /\ \A j \in 1..(i - 1) : ~Contains(entry[1], ReadOrder[j])] ELSE <<>>
ReadLine(got, line) ==
    IF got.raised \/ (line # <<>> /\ Head(line) = "#") THEN got
    ELSE LET entry == SplitAll(RemoveSpace(line), "=")
             key == ReadKey(entry)
         IN IF key = <<>> THEN got
            ELSE IF Len(entry) < 2 THEN [got EXCEPT !.raised = TRUE]
            ELSE IF entry[2] = <<>> THEN got
            ELSE [got EXCEPT !.settings[key] = entry[2]]
RECURSIVE ReadLines(_, _, _)
ReadLines(got, lines, i) == IF i > Len(lines) THEN got ELSE ReadLines(Only({ReadLine(got, lines[i])}), lines, i + 1)
read_config(settings, file) == ReadLines([settings |-> settings, raised |-> FALSE], file.lines, 1)

(* Lkce(): the defaults, then the values of the config file if there is one *)
Lkce(w) ==
    LET self == [settings |-> DefaultSettings, has_kdump_d |-> w.pre_d, kdump_dirty |-> FALSE, is_configured |-> FALSE, raised |-> FALSE]
        got == read_config(self.settings, w.config)
    IN IF ~w.config.exists THEN self
       ELSE IF got.raised THEN [self EXCEPT !.raised = TRUE]
       ELSE [self EXCEPT !.settings = got.settings, !.is_configured = TRUE]

(* update_key_values_file(path, {key: new_value}, sep) for one key: a line *)
(* whose text before the first "=", stripped, is the key is replaced (the  *)
(* first such line; later ones are written back as they are); without      *)
(* such a line an empty line and the key are added at the end, if the      *)
(* value is not empty                                                      *)
KeyOf(line) == StripChars(SplitOnce(line, "=")[1], Blank)
KeyLine(lines, key) == IF \E i \in 1..Len(lines) : KeyOf(lines[i]) = key THEN CHOOSE i \in 1..Len(lines) : KeyOf(lines[i]) = key /\ \A j \in 1..(i - 1) : KeyOf(lines[j]) # key ELSE 0
update_key_values_file(file, key, new_value, sep) ==
    LET at == KeyLine(file.lines, key)
    IN IF at > 0 THEN File([file.lines EXCEPT ![at] = key \o sep \o new_value])
       ELSE IF new_value # <<>> THEN File(file.lines \o <<<<>>, key \o sep \o new_value>>)
       ELSE File(file.lines)

(* the machine at the start of a command *)
Machine(w) == [w |-> w, self |-> Lkce(w), n |-> 0, ret |-> 0, failsafe |-> [ran |-> FALSE]]
Ret(m, ret) == [m EXCEPT !.ret = ret]

(* need_kdump_conf *)
need_kdump_conf(m) == ~m.self.has_kdump_d

(* restart_kdump_service: systemctl restart kdump; 0 when it worked *)
restart_kdump_service(m, e) == [m EXCEPT !.n = @ + 1, !.ret = IF e.restart[m.n + 1] THEN 0 ELSE 1]

(* backup_kdump_conf, restore_kdump_conf: shutil.copyfile *)
backup_kdump_conf(m) == IF m.w.kdump_conf.exists THEN [m EXCEPT !.w.backup = m.w.kdump_conf, !.ret = 0] ELSE Ret(m, 1)
restore_kdump_conf(m) == IF m.w.backup.exists THEN [m EXCEPT !.w.kdump_conf = m.w.backup, !.ret = 0] ELSE Ret(m, 1)

(* restart_kdump_service_failsafe; calls lists what it called and whether  *)
(* each call worked                                                        *)
Called(call, m) == [call |-> call, ok |-> m.ret = 0]
Failsafe(m, calls, ret) == [m EXCEPT !.ret = ret, !.failsafe = [ran |-> TRUE, calls |-> calls, ret |-> ret]]
RestoreIgnored(restored) == FALSE
RestoreFailed(restored) == restored.ret # 0
restart_kdump_service_failsafe(m, e) ==
    LET first == restart_kdump_service(m, e)
        restored == restore_kdump_conf(first)
        second == restart_kdump_service(restored, e)
    IN IF first.ret # 0
       THEN IF RestoreFailed(restored)
            THEN Failsafe(restored, <<Called("restart", first), Called("restore", restored)>>, 1)
            ELSE Failsafe(second, <<Called("restart", first), Called("restore", restored), Called("restart", second)>>, IF second.ret # 0 THEN 1 ELSE 2)
       ELSE Failsafe(first, <<Called("restart", first)>>, 0)

(* create_lkce_kdump: writes lkce_kdump.sh from the settings *)
create_lkce_kdump(m, e) == IF e.create_ok THEN [m EXCEPT !.w.kdump_sh = TRUE, !.ret = 0] ELSE Ret(m, 1)

(* kdump_pre_d_link, kdump_pre_d_unlink: 2 when there is nothing to do *)
kdump_pre_d_link(m) == IF m.w.link THEN Ret(m, 2) ELSE IF ~m.w.pre_d THEN Ret(m, 1) ELSE [m EXCEPT !.w.link = TRUE, !.self.kdump_dirty = TRUE, !.ret = 0]
kdump_pre_d_unlink(m) == IF ~m.w.link THEN Ret(m, 2) ELSE [m EXCEPT !.w.link = FALSE, !.self.kdump_dirty = TRUE, !.ret = 0]

(* update_kdump_conf("--add" | "--remove") *)
kdump_pre_line == <<"k", "d", "u", "m", "p", "_", "p", "r", "e", " ", "/", "e", "t", "c", "/", "o", "l", "e", "d", "/", "l", "k", "c", "e", "/", "l", "k", "c", "e", "_", "k", "d", "u", "m", "p", ".", "s", "h">>
IsKdumpPre(line) == StartsWith(line, <<"k", "d", "u", "m", "p", "_", "p", "r", "e", " ">>)
IsNotOurs(line) == line # kdump_pre_line
get_kdump_pre_line(file) == IF file.exists /\ SelectSeq(file.lines, IsKdumpPre) # <<>> THEN Head(SelectSeq(file.lines, IsKdumpPre)) ELSE <<>>
RemoveFirst(lines, line) == LET at == CHOOSE i \in 1..Len(lines) : lines[i] = line /\ \A j \in 1..(i - 1) : lines[j] # line IN SubSeq(lines, 1, at - 1) \o SubSeq(lines, at + 1, Len(lines))
update_kdump_conf(m, arg) ==
    LET b == IF m.w.kdump_conf.exists THEN backup_kdump_conf(m) ELSE m
        lines == b.w.kdump_conf.lines
        pre == get_kdump_pre_line(b.w.kdump_conf)
    IN IF ~m.w.kdump_conf.exists THEN Ret(m, 1)
       ELSE IF arg = "--remove"
       THEN IF \A i \in 1..Len(lines) : lines[i] # kdump_pre_line THEN Ret(b, 2)
            ELSE [b EXCEPT !.w.kdump_conf = File(RemoveFirst(lines, kdump_pre_line)), !.self.kdump_dirty = TRUE, !.ret = 0]
       ELSE IF pre = kdump_pre_line THEN Ret(b, 2)
       ELSE IF pre # <<>> THEN Ret(b, 1)
       ELSE [b EXCEPT !.w.kdump_conf = File(lines \o <<kdump_pre_line>>), !.self.kdump_dirty = TRUE, !.ret = 0]

(* the end of enable_lkce_kexec and disable_lkce_kexec: kdump is restarted *)
(* when something changed                                                  *)
RestartIfDirty(m, e) ==
    LET r == restart_kdump_service_failsafe(m, e)
        clean == [r EXCEPT !.self.kdump_dirty = FALSE]
    IN IF ~m.self.kdump_dirty THEN Ret(m, 0)
       ELSE IF r.ret # 0 THEN Ret(r, 1)
       ELSE IF need_kdump_conf(clean) THEN Ret(backup_kdump_conf(clean), 0)
       ELSE Ret(clean, 0)

(* enable_lkce_kexec *)
enable_lkce_kexec(m, e) ==
    LET c == create_lkce_kdump(m, e)
        u == IF need_kdump_conf(c) THEN update_kdump_conf(c, "--add") ELSE kdump_pre_d_link(c)
    IN IF c.ret # 0 THEN Ret(c, 1)
       ELSE IF u.ret # 0 THEN u
       ELSE RestartIfDirty(u, e)

(* disable_lkce_kexec *)
disable_lkce_kexec(m, e) ==
    LET u == IF need_kdump_conf(m) THEN update_kdump_conf(m, "--remove") ELSE kdump_pre_d_unlink(m)
    IN IF ~m.w.config.exists THEN Ret(m, 1)
       ELSE IF u.ret # 0 THEN u
       ELSE RestartIfDirty(u, e)

(* configure_default: the default lkce.conf *)
DefaultConfig ==
    <<<<"#", "#">>, <<"#", " ", "T", "h", "i", "s", " ", "i", "s", " ", "t", "h", "e", " ", "c", "o", "n", "f", "i", "g", "u", "r", "a", "t", "i", "o", "n", " ", "f", "i", "l", "e", " ", "f", "o", "r", " ", "l", "k", "c", "e">>, <<"#", " ", "U", "s", "e", " ", "t", "h", "e", " ", "o", "l", "e", "d", " ", "l", "k", "c", "e", " ", "c", "o", "n", "f", "i", "g", "u", "r", "e", " ", "c", "o", "m", "m", "a", "n", "d", " ", "t", "o", " ", "c", "h", "a", "n", "g", "e", " ", "v", "a", "l", "u", "e", "s">>, <<"#", "#">>, <<>>,
      <<"#", "r", "e", "p", "o", "r", "t", " ", "c", "o", "m", "m", "a", "n", "d", " ", "t", "o", " ", "u", "s", "e", " ", "f", "o", "r", " ", "l", "k", "c", "e">>, report_cmd \o <<"=">> \o DefaultSettings[report_cmd], <<>>,
      <<"#", "d", "e", "b", "u", "g", "i", "n", "f", "o", " ", "v", "m", "l", "i", "n", "u", "x", " ", "p", "a", "t", "h", ".", " ", "N", "e", "e", "d", " ", "t", "o", " ", "i", "n", "s", "t", "a", "l", "l", " ", "d", "e", "b", "u", "g", "i", "n", "f", "o", " ", "k", "e", "r", "n", "e", "l", " ", "t", "o", " ", "g", "e", "t", " ", "i", "t">>, vmlinux_path \o <<"=">> \o DefaultSettings[vmlinux_path], <<>>,
      <<"#", "p", "a", "t", "h", " ", "t", "o", " ", "f", "i", "l", "e", " ", "c", "o", "n", "t", "a", "i", "n", "i", "n", "g", " ", "c", "r", "a", "s", "h", " ", "c", "o", "m", "m", "a", "n", "d", "s", " ", "t", "o", " ", "e", "x", "e", "c", "u", "t", "e">>, crash_cmds_file \o <<"=">> \o DefaultSettings[crash_cmds_file], <<>>,
      <<"#", "p", "a", "t", "h", " ", "t", "o", " ", "f", "i", "l", "e", " ", "c", "o", "n", "t", "a", "i", "n", "i", "n", "g", " ", "c", "o", "r", "e", "l", "e", "n", "s", " ", "c", "o", "m", "m", "a", "n", "d", " ", "l", "i", "n", "e", " ", "a", "r", "g", "u", "m", "e", "n", "t", "s">>, corelens_args_file \o <<"=">> \o DefaultSettings[corelens_args_file], <<>>,
      <<"#", "l", "k", "c", "e", " ", "o", "u", "t", "p", "u", "t", " ", "d", "i", "r", "e", "c", "t", "o", "r", "y", " ", "p", "a", "t", "h">>, lkce_outdir \o <<"=">> \o DefaultSettings[lkce_outdir], <<>>,
      <<"#", "e", "n", "a", "b", "l", "e", " ", "v", "m", "c", "o", "r", "e", " ", "g", "e", "n", "e", "r", "a", "t", "i", "o", "n", " ", "p", "o", "s", "t", " ", "k", "d", "u", "m", "p", "_", "r", "e", "p", "o", "r", "t">>, vmcore \o <<"=">> \o DefaultSettings[vmcore], <<>>,
      <<"#", "m", "a", "x", "i", "m", "u", "m", " ", "n", "u", "m", "b", "e", "r", " ", "o", "f", " ", "o", "u", "t", "p", "u", "t", "f", "i", "l", "e", "s", " ", "t", "o", " ", "r", "e", "t", "a", "i", "n", ".", " ", "O", "l", "d", "e", "r", " ", "f", "i", "l", "e", " ", "g", "e", "t", "s", " ", "d", "e", "l", "e", "t", "e", "d">>, max_out_files \o <<"=">> \o DefaultSettings[max_out_files]>>
configure_default(m, e) ==
    LET d == disable_lkce_kexec(m, e)
    IN [d EXCEPT !.self = [set_defaults(d.self, d.w) EXCEPT !.is_configured = TRUE], !.w.config = File(DefaultConfig), !.ret = 0]

(* config_report_cmd, config_vmcore and config_lkce_outdir: 1 when the     *)
(* value is refused                                                        *)
config_report_cmd(m, value) == IF LowerChars(value) # <<"c", "o", "r", "e", "l", "e", "n", "s">> THEN Ret(m, 1) ELSE [m EXCEPT !.self.settings[report_cmd] = LowerChars(value), !.ret = 0]
config_vmcore(m, value) == IF value \notin {<<"y", "e", "s">>, <<"n", "o">>} \/ ~m.w.kdump_sh THEN Ret(m, 1) ELSE [m EXCEPT !.self.settings[vmcore] = value, !.self.kdump_dirty = TRUE, !.ret = 0]
config_lkce_outdir(m, value) == IF ~m.w.kdump_sh THEN Ret(m, 1) ELSE [m EXCEPT !.self.settings[lkce_outdir] = value, !.self.kdump_dirty = TRUE, !.ret = 0]

(* configure(subargs) for one argument; ret is 0 when configure ran to its *)
(* end and 1 when it returned with an error message                        *)
ConfigureOptions == {<<"-", "-", "c", "o", "r", "e", "l", "e", "n", "s", "_", "a", "r", "g", "s", "_", "f", "i", "l", "e">>, <<"-", "-", "c", "r", "a", "s", "h", "_", "c", "m", "d", "s", "_", "f", "i", "l", "e">>, <<"-", "-", "v", "m", "l", "i", "n", "u", "x">>, <<"-", "-", "r", "e", "p", "o", "r", "t", "_", "c", "m", "d">>, <<"-", "-", "l", "k", "c", "e", "_", "o", "u", "t", "d", "i", "r">>, <<"-", "-", "v", "m", "c", "o", "r", "e">>, <<"-", "-", "m", "a", "x", "_", "o", "u", "t", "_", "f", "i", "l", "e", "s">>}
ConfigChecked(m, key, value) ==
    IF key = report_cmd /\ value # <<>> THEN config_report_cmd(m, value)
    ELSE IF key = vmcore /\ value # <<>> THEN config_vmcore(m, value)
    ELSE IF key = lkce_outdir /\ value # <<>> THEN config_lkce_outdir(m, value)
    ELSE Ret(m, 0)
ConfigureEnd(m, e) ==
    LET c == create_lkce_kdump(m, e)
        r == restart_kdump_service_failsafe(c, e)
        clean == [r EXCEPT !.self.kdump_dirty = FALSE]
    IN IF ~m.self.kdump_dirty THEN Ret(m, 0)
       ELSE IF c.ret # 0 THEN Ret(c, 1)
       ELSE IF r.ret # 0 THEN Ret(r, 0)
       ELSE IF need_kdump_conf(clean) THEN Ret(backup_kdump_conf(clean), 0)
       ELSE Ret(clean, 0)
configure(m, subarg, e) ==
    LET entry == SplitOnce(subarg, "=")
        key == StripChars(entry[1], {"-"})
        value == StripChars(entry[2], Blank)
        d == configure_default(m, e)
        checked == ConfigChecked(m, key, value)
        updated == [checked EXCEPT !.w.config = update_key_values_file(checked.w.config, key, value, <<"=">>)]
    IN IF subarg = <<"-", "-", "d", "e", "f", "a", "u", "l", "t">> THEN ConfigureEnd(d, e)
       ELSE IF subarg = <<"-", "-", "s", "h", "o", "w">> THEN IF m.w.config.exists /\ m.self.is_configured THEN ConfigureEnd(m, e) ELSE Ret(m, 1)
       ELSE IF Len(entry) < 2 \/ entry[1] \notin ConfigureOptions THEN Ret(m, 1)
       ELSE IF ~m.self.is_configured THEN Ret(m, 1)
       ELSE IF checked.ret # 0 THEN Ret(checked, 1)
       ELSE ConfigureEnd(updated, e)


(* the commands of main(), one lkce process at a time (the lock file)      *)

(* what the system answers during one command: kdump fails to restart so   *)
(* many times and then restarts, and the kdump_pre script can be written   *)
(* or not                                                                  *)
Fails(k) == [i \in 1..4 |-> i > k]
Envs == {[restart |-> Fails(k), create_ok |-> TRUE] : k \in 0..4} \cup {[restart |-> Fails(0), create_ok |-> FALSE]}

(* the config-options of the usage text, and the values tried for them *)
UsageOptions == {<<"-", "-", "v", "m", "l", "i", "n", "u", "x", "_", "p", "a", "t", "h">>, <<"-", "-", "c", "r", "a", "s", "h", "_", "c", "m", "d", "s", "_", "f", "i", "l", "e">>, <<"-", "-", "c", "o", "r", "e", "l", "e", "n", "s", "_", "a", "r", "g", "s", "_", "f", "i", "l", "e">>, <<"-", "-", "v", "m", "c", "o", "r", "e">>, <<"-", "-", "l", "k", "c", "e", "_", "o", "u", "t", "d", "i", "r">>, <<"-", "-", "m", "a", "x", "_", "o", "u", "t", "_", "f", "i", "l", "e", "s">>}
ValidValues(option) ==
    IF option = <<"-", "-", "v", "m", "c", "o", "r", "e">> THEN {<<"n", "o">>, <<"y", "e", "s">>}
    ELSE IF option = <<"-", "-", "m", "a", "x", "_", "o", "u", "t", "_", "f", "i", "l", "e", "s">> THEN {<<"9">>}
    ELSE IF option = <<"-", "-", "r", "e", "p", "o", "r", "t", "_", "c", "m", "d">> THEN {<<"c", "o", "r", "e", "l", "e", "n", "s">>}
    ELSE {<<"/", "p">>}
Subargs == UNION {{option \o <<"=">> \o value : value \in ValidValues(option)} : option \in UsageOptions \cup ConfigureOptions} \cup {<<"-", "-", "d", "e", "f", "a", "u", "l", "t">>, <<"-", "-", "s", "h", "o", "w">>, <<"-", "-", "v", "m", "c", "o", "r", "e">>, <<"-", "-", "v", "m", "c", "o", "r", "e", "=", "m", "a", "y", "b", "e">>}

(* what is kept of a command: its name and argument, what held when it     *)
(* started, /etc/kdump.conf as it found and as it left it, what it         *)
(* returned and what its last restart_kdump_service_failsafe did           *)
LkceRan(cmd, subarg, m, end) == [cmd |-> cmd, subarg |-> subarg, is_configured |-> m.self.is_configured, kdump_sh |-> m.w.kdump_sh, has_kdump_d |-> m.self.has_kdump_d, kdump_conf |-> m.w.kdump_conf, kdump_conf_left |-> end.w.kdump_conf, ret |-> end.ret, failsafe |-> end.failsafe]

(* main(): lkce = Lkce(), then the command *)
LkceCommand(cmd, subargs, envs) ==
    /\ \E m \in {Machine(lkce_sys)} :
          /\ ~m.self.raised
          /\ \E subarg \in subargs, e \in envs :
                \E end \in {CASE cmd = "configure" -> configure(m, subarg, e)
                              [] cmd = "enable_kexec" -> IF m.self.is_configured THEN enable_lkce_kexec(m, e) ELSE Ret(m, 1)
                              [] cmd = "disable_kexec" -> IF m.self.is_configured THEN disable_lkce_kexec(m, e) ELSE Ret(m, 1)} :
                   /\ lkce_sys' = end.w
                   /\ lkce_run' = LkceRan(cmd, subarg, m, end)
    /\ UNCHANGED rest_lkce_tool

(* oled lkce configure <subarg> *)
ConfigureEnvs == {[restart |-> Fails(k), create_ok |-> TRUE] : k \in 0..2} \cup {[restart |-> Fails(0), create_ok |-> FALSE]}
LkceConfigure == LkceCommand("configure", Subargs, ConfigureEnvs)

(* oled lkce configure --default *)
LkceConfigureDefault == LkceCommand("configure", {<<"-", "-", "d", "e", "f", "a", "u", "l", "t">>}, Envs)

(* oled lkce enable_kexec *)
LkceEnableKexec == LkceCommand("enable_kexec", {<<>>}, Envs)

(* oled lkce disable_kexec *)
LkceDisableKexec == LkceCommand("disable_kexec", {<<>>}, Envs)

(* the administrator edits /etc/kdump.conf: a line is added or taken out *)
AdminLine == <<"d", "e", "f", "a", "u", "l", "t", " ", "r", "e", "b", "o", "o", "t">>
IsNotAdminLine(line) == line # AdminLine
AdminEditsKdumpConf ==
    /\ lkce_sys.kdump_conf.exists
    /\ lkce_sys' = [lkce_sys EXCEPT !.kdump_conf.lines = IF SelectSeq(@, IsNotAdminLine) = @ THEN @ \o <<AdminLine>> ELSE SelectSeq(@, IsNotAdminLine)]
    /\ UNCHANGED <<lkce_run, rest_lkce_tool>>

(* a kexec-tools that runs the scripts of /etc/kdump/pre.d is installed *)
InstallPreD ==
    /\ ~lkce_sys.pre_d
    /\ lkce_sys' = [lkce_sys EXCEPT !.pre_d = TRUE]
    /\ UNCHANGED <<lkce_run, rest_lkce_tool>>

(* configuring lkce *)
LkceConfigNext ==
    \/ LkceConfigure
    \/ LkceEnableKexec

LkceConfigSpec == Init /\ [][LkceConfigNext]_vars

(* lkce in the kdump kernel *)
LkceKexecNext ==
    \/ LkceConfigureDefault
    \/ LkceEnableKexec
    \/ LkceDisableKexec
    \/ AdminEditsKdumpConf
    \/ InstallPreD

LkceKexecSpec == Init /\ [][LkceKexecNext]_vars

(* the option and the value of the last configure *)
OptionOf(subarg) == SplitOnce(subarg, "=")[1]
ValueOf(subarg) == SplitOnce(subarg, "=")[2]

(* configure --<option>=<valid value> was run for a listed option on a     *)
(* configured and enabled LKCE                                             *)
Configured == lkce_run.cmd = "configure" /\ lkce_run.is_configured /\ lkce_run.kdump_sh /\ Len(SplitOnce(lkce_run.subarg, "=")) = 2 /\ OptionOf(lkce_run.subarg) \in UsageOptions /\ ValueOf(lkce_run.subarg) \in ValidValues(OptionOf(lkce_run.subarg))

(* C14: after configure --<option>=<valid value> for an option of the      *)
(* usage text on a configured and enabled LKCE, read_config of lkce.conf   *)
(* yields that value for the setting of the same name                      *)
C14_ConfigureStores == Configured => Lkce(lkce_sys).settings[StripChars(OptionOf(lkce_run.subarg), {"-"})] = ValueOf(lkce_run.subarg)

(* the last restart_kdump_service_failsafe of the command run last *)
FailsafeRan == lkce_run.cmd # "none" /\ lkce_run.failsafe.ran
FailsafeCalls == lkce_run.failsafe.calls
FailsafeRet == lkce_run.failsafe.ret

(* C19: restart_kdump_service_failsafe restarts kdump first and restores   *)
(* /etc/kdump.conf from the backup only if that restart fails; it returns  *)
(* 0 iff the first restart succeeds, 2 iff the first restart fails and     *)
(* both the restore and the second restart succeed, and 1 otherwise, and   *)
(* it never attempts the second restart after a failed restore             *)
C19_Failsafe ==
    FailsafeRan =>
        /\ FailsafeCalls[1].call = "restart"
        /\ FailsafeCalls[1].ok => Len(FailsafeCalls) = 1
        /\ ~FailsafeCalls[1].ok => Len(FailsafeCalls) >= 2 /\ FailsafeCalls[2].call = "restore"
        /\ Len(FailsafeCalls) >= 2 /\ ~FailsafeCalls[2].ok => Len(FailsafeCalls) = 2
        /\ Len(FailsafeCalls) >= 2 /\ FailsafeCalls[2].ok => Len(FailsafeCalls) = 3 /\ FailsafeCalls[3].call = "restart"
        /\ FailsafeRet = 0 <=> FailsafeCalls[1].ok
        /\ FailsafeRet = 2 <=> Len(FailsafeCalls) = 3 /\ FailsafeCalls[3].ok
        /\ FailsafeRet \in {0, 1, 2}

(* a failed restart, and a backup that could not be restored *)
C19_Witness == FailsafeRan /\ Len(FailsafeCalls) = 2 /\ ~FailsafeCalls[2].ok /\ FailsafeRet = 1

(* C20: when /etc/kdump/pre.d exists, enable_kexec and disable_kexec leave *)
(* /etc/kdump.conf as they found it                                        *)
C20_KdumpConfUntouched == lkce_run.cmd \in {"enable_kexec", "disable_kexec"} /\ lkce_run.has_kdump_d => lkce_run.kdump_conf_left = lkce_run.kdump_conf


----------------------------------------------------------------------------
(* scripts.py: the startup configuration of the oled scripts               *)

(* the files of /usr/libexec/oled-tools/scripts.d in the order glob gives  *)
(* them, and the lines of startup-scripts.conf there ("+ name": enabled by *)
(* default)                                                                *)
AvailableScripts == <<<<"t", "o", "o", "l">>, <<"u", "+", "p">>, <<"u", ".", "p">>, <<"u", "p">>>>
STARTUP_CONFIG_FILE == File(<<<<"+", " ", "u", "p">>, <<"u", "+", "p">>, <<>>, <<"+", " ", "u", ".", "p">>, <<"g", "o", "n", "e">>>>)
IsAvailable(name) == \E i \in 1..Len(AvailableScripts) : AvailableScripts[i] = name

(* get_startup_script_names: name |-> enabled by default *)
RECURSIVE StartupNames(_, _, _)
StartupNames(lines, i, found) ==
    IF i > Len(lines) THEN found
    ELSE IF Strip(lines[i]) = <<>> THEN StartupNames(lines, i + 1, found)
    ELSE IF StartsWith(Strip(lines[i]), <<"+", " ">>) THEN StartupNames(lines, i + 1, (Strip(SubSeq(Strip(lines[i]), 3, Len(Strip(lines[i])))) :> TRUE) @@ found)
    ELSE StartupNames(lines, i + 1, (Strip(lines[i]) :> FALSE) @@ found)
get_startup_script_names(file) == IF file.exists THEN StartupNames(file.lines, 1, <<>>) ELSE <<>>

(* get_user_startup_cofig: name |-> enabled by the user; lines that start  *)
(* with neither "+ " nor "- " are ignored                                  *)
RECURSIVE UserNames(_, _, _)
UserNames(lines, i, found) ==
    IF i > Len(lines) THEN found
    ELSE IF StartsWith(Strip(lines[i]), <<"+", " ">>) THEN UserNames(lines, i + 1, (Strip(SubSeq(Strip(lines[i]), 3, Len(Strip(lines[i])))) :> TRUE) @@ found)
    ELSE IF StartsWith(Strip(lines[i]), <<"-", " ">>) THEN UserNames(lines, i + 1, (Strip(SubSeq(Strip(lines[i]), 3, Len(Strip(lines[i])))) :> FALSE) @@ found)
    ELSE UserNames(lines, i + 1, found)
get_user_startup_cofig(file) == IF file.exists THEN UserNames(file.lines, 1, <<>>) ELSE <<>>

(* re.match of a pattern made of characters, "." (any character) and a     *)
(* following "+" (once or more), against all of text                       *)
RECURSIVE ReMatch(_, _)
ReMatch(pattern, text) ==
    IF pattern = <<>> THEN text = <<>>
    ELSE IF text = <<>> \/ (pattern[1] # "." /\ pattern[1] # text[1]) THEN FALSE
    ELSE IF Len(pattern) >= 2 /\ pattern[2] = "+" THEN ReMatch(SubSeq(pattern, 3, Len(pattern)), Tail(text)) \/ ReMatch(pattern, Tail(text))
    ELSE ReMatch(Tail(pattern), Tail(text))

(* update_user_config: matching_regex = "^(([\+-] +)?{script_name}$|)$",   *)
(* the script name being the pattern                                       *)
NamePattern(script_name) == script_name
matching_regex(script_name, line) ==
    \/ line = <<>>
    \/ ReMatch(NamePattern(script_name), line)
    \/ /\ Len(line) >= 2
       /\ line[1] \in {"+", "-"}
       /\ \E k \in 2..Len(line) : (\A j \in 2..k : line[j] = " ") /\ ReMatch(NamePattern(script_name), SubSeq(line, k + 1, Len(line)))

(* update_user_config(config_path, script_name, enable), enable being      *)
(* "None", "True" or "False"                                               *)
update_user_config(file, script_name, enable) ==
    LET Kept(line) == ~matching_regex(script_name, Strip(line))
        kept == SelectSeq(file.lines, Kept)
    IN IF ~file.exists /\ enable = "None" THEN file
       ELSE File(kept \o (IF enable = "True" THEN <<<<"+", " ">> \o script_name>> ELSE IF enable = "False" THEN <<<<"-", " ">> \o script_name>> ELSE <<>>))

(* a valid startup script: available and named in startup-scripts.conf *)
IsValidStartup(script_name) == IsAvailable(script_name) /\ script_name \in DOMAIN get_startup_script_names(STARTUP_CONFIG_FILE)
DefaultEnabled(script_name) == get_startup_script_names(STARTUP_CONFIG_FILE)[script_name]

(* reset_startup(script_name); "--all" stands for None *)
reset_startup(file, script_name) ==
    IF ~file.exists THEN file
    ELSE IF script_name = <<"-", "-", "a", "l", "l">> THEN NoFile
    ELSE update_user_config(file, script_name, "None")

(* enable_startup and disable_startup of a valid startup script *)
enable_startup(file, script_name) == update_user_config(file, script_name, IF DefaultEnabled(script_name) THEN "None" ELSE "True")
disable_startup(file, script_name) == update_user_config(file, script_name, IF ~DefaultEnabled(script_name) THEN "None" ELSE "False")

(* run_startup_enabled: the scripts it runs *)
IsEnabled(file, name) ==
    /\ name \in DOMAIN get_startup_script_names(STARTUP_CONFIG_FILE)
    /\ IF name \in DOMAIN get_user_startup_cofig(file) THEN get_user_startup_cofig(file)[name] ELSE DefaultEnabled(name)
enabled_scripts(file) == LET Enabled(name) == IsEnabled(file, name) IN SelectSeq(AvailableScripts, Enabled)

(* the script names given on the command line *)
ScriptArgs == {AvailableScripts[i] : i \in 1..Len(AvailableScripts)} \cup {<<"g", "o", "n", "e">>, <<"n", "o", "s", "u", "c", "h">>}

(* the user configuration is kept to so many lines *)
MaxLines == 3
Room == Len(USER_STARTUP_CONFIG_FILE.lines) < MaxLines

(* oled scripts enable-startup SCRIPT *)
ScriptsEnable ==
    /\ Room
    /\ \E script_name \in ScriptArgs :
          /\ USER_STARTUP_CONFIG_FILE' = IF IsValidStartup(script_name) THEN enable_startup(USER_STARTUP_CONFIG_FILE, script_name) ELSE USER_STARTUP_CONFIG_FILE
          /\ scripts_op' = [cmd |-> "enable-startup", subarg |-> script_name]
    /\ UNCHANGED rest_scripts_tool

(* oled scripts disable-startup SCRIPT *)
ScriptsDisable ==
    /\ Room
    /\ \E script_name \in ScriptArgs :
          /\ USER_STARTUP_CONFIG_FILE' = IF IsValidStartup(script_name) THEN disable_startup(USER_STARTUP_CONFIG_FILE, script_name) ELSE USER_STARTUP_CONFIG_FILE
          /\ scripts_op' = [cmd |-> "disable-startup", subarg |-> script_name]
    /\ UNCHANGED rest_scripts_tool

(* oled scripts reset-startup (SCRIPT | --all) *)
ScriptsReset ==
    /\ \E script_name \in ScriptArgs \cup {<<"-", "-", "a", "l", "l">>} :
          /\ USER_STARTUP_CONFIG_FILE' = reset_startup(USER_STARTUP_CONFIG_FILE, script_name)
          /\ scripts_op' = [cmd |-> "reset-startup", subarg |-> script_name]
    /\ UNCHANGED rest_scripts_tool

(* oled scripts run-startup-enabled *)
ScriptsRunStartupEnabled ==
    /\ scripts_op' = [cmd |-> "run-startup-enabled", subarg |-> <<>>, enabled_scripts |-> enabled_scripts(USER_STARTUP_CONFIG_FILE)]
    /\ UNCHANGED <<USER_STARTUP_CONFIG_FILE, rest_scripts_tool>>

ScriptsNext ==
    \/ ScriptsEnable
    \/ ScriptsDisable
    \/ ScriptsReset
    \/ ScriptsRunStartupEnabled

ScriptsSpec == Init /\ [][ScriptsNext]_vars

(* what run_startup_enabled would run now *)
WouldRun(name) == \E i \in 1..Len(enabled_scripts(USER_STARTUP_CONFIG_FILE)) : enabled_scripts(USER_STARTUP_CONFIG_FILE)[i] = name

(* C15: for a valid startup script s: after enable_startup(s) it is among  *)
(* the scripts run_startup_enabled runs, after disable_startup(s) it is    *)
(* not, and after reset_startup(s) it is run exactly when the default      *)
(* startup configuration enables it                                        *)
C15_StartupState ==
    IsValidStartup(scripts_op.subarg) =>
        /\ scripts_op.cmd = "enable-startup" => WouldRun(scripts_op.subarg)
        /\ scripts_op.cmd = "disable-startup" => ~WouldRun(scripts_op.subarg)
        /\ scripts_op.cmd = "reset-startup" => (WouldRun(scripts_op.subarg) <=> DefaultEnabled(scripts_op.subarg))


----------------------------------------------------------------------------
(* kdump_report.py clean_up and lkce.py clean: the report files of         *)
(* lkce_outdir                                                             *)

(* the names a file of lkce_outdir may have, and the ctimes it may have *)
OutdirNames == {<<"c", "r", "a", "s", "h", "_", "1", ".", "o", "u", "t">>, <<"c", "o", "r", "e", "l", "e", "n", "s", "_", "1", ".", "o", "u", "t">>, <<"c", "o", "r", "e", "l", "e", "n", "s", "_", "2", ".", "o", "u", "t">>, <<"c", "r", "a", "s", "h", ".", "l", "o", "g">>}
MaxCtime == 2
Ctimes == 1..MaxCtime

(* glob.glob(f"{outdir}/{prefix}*.out") in some order of the directory *)
EndsWith(s, suffix) == Len(s) >= Len(suffix) /\ SubSeq(s, Len(s) - Len(suffix) + 1, Len(s)) = suffix
GlobMatches(dir, prefix) == {name \in DOMAIN dir : Len(name) >= Len(prefix) + 4 /\ StartsWith(name, prefix) /\ EndsWith(name, <<".", "o", "u", "t">>)}
Orders(S) == {s \in [1..Cardinality(S) -> S] : \A i, j \in 1..Cardinality(S) : i # j => s[i] # s[j]}
glob(dir, prefix) == Orders(GlobMatches(dir, prefix))
ReportFiles(dir) == {crash \o corelens : crash \in glob(dir, <<"c", "r", "a", "s", "h">>), corelens \in glob(dir, <<"c", "o", "r", "e", "l", "e", "n", "s">>)}

(* int(max_out_files): [ok, value] *)
int(s) ==
    LET t == Strip(s)
        body == IF t # <<>> /\ t[1] \in {"+", "-"} THEN Tail(t) ELSE t
    IN IF AllDigits(body) THEN [ok |-> TRUE, value |-> IF t[1] = "-" THEN -DigitsVal(body) ELSE DigitsVal(body)]
       ELSE [ok |-> FALSE, value |-> 0]

(* report_files.sort(key=getctime, reverse=True): a stable sort *)
SortsBeforeAscending(dir, a, b) == dir[a] <= dir[b]
SortsBefore(dir, a, b) == dir[a] >= dir[b]
RECURSIVE Insert(_, _, _)
Insert(dir, sorted, f) ==
    IF sorted = <<>> THEN <<f>>
    ELSE IF SortsBefore(dir, sorted[1], f) THEN <<sorted[1]>> \o Insert(dir, Tail(sorted), f)
    ELSE <<f>> \o sorted
RECURSIVE SortByCtime(_, _, _)
SortByCtime(dir, files, i) == IF i = 0 THEN <<>> ELSE Insert(dir, SortByCtime(dir, files, i - 1), files[i])
sort(dir, files) == SortByCtime(dir, files, Len(files))

(* files[n:] *)
SliceFrom(files, n) == SubSeq(files, (IF n < 0 THEN (IF Len(files) + n < 0 THEN 0 ELSE Len(files) + n) ELSE (IF n > Len(files) THEN Len(files) ELSE n)) + 1, Len(files))
SeqSet(files) == {files[i] : i \in 1..Len(files)}
Without(dir, names) == [name \in DOMAIN dir \ names |-> dir[name]]

(* what is kept of a clean-up: the command, max_out_files, the directory   *)
(* before and after, the files it called os.remove for and those for which *)
(* os.remove raised OSError                                                *)
Cleaned(cmd, max_files, dir, selected, failed) == [cmd |-> cmd, subarg |-> <<>>, cleaned |-> TRUE, max_files |-> max_files, before |-> dir, selected |-> selected, failed |-> failed, after |-> Without(dir, selected \ failed)]
NotCleaned(cmd) == [cmd |-> cmd, subarg |-> <<>>, cleaned |-> FALSE]

(* os.remove of every selected file; OSError is printed and passed over *)
RemoveFiles(cmd, max_files, dir, selected) ==
    \E failed \in SUBSET selected :
        /\ lkce_outdir_files' = Without(dir, selected \ failed)
        /\ clean_run' = Cleaned(cmd, max_files, dir, selected, failed)

(* KdumpReport.clean_up, dir being what lkce_outdir holds *)
clean_up(dir) ==
    IF ~int(conf_max_out_files).ok THEN lkce_outdir_files' = dir /\ clean_run' = NotCleaned("clean_up")
    ELSE \E max_files \in {int(conf_max_out_files).value}, report_files \in ReportFiles(dir) :
            IF Len(report_files) > max_files
            THEN RemoveFiles("clean_up", max_files, dir, SeqSet(SliceFrom(sort(dir, report_files), max_files)))
            ELSE RemoveFiles("clean_up", max_files, dir, {})

(* kdump_report.py main(), once the report of an earlier crash is there:   *)
(* run_report() finds no corelens, or writes its output file and raises    *)
(* CalledProcessError, or writes it and returns; then clean_up()           *)
KdumpReportMain ==
    /\ \E name \in {n \in OutdirNames : EndsWith(n, <<".", "o", "u", "t">>)}, t \in Ctimes, run \in {"not found", "raised", "ran"} :
          \E written \in {IF run = "not found" THEN lkce_outdir_files ELSE (name :> t) @@ lkce_outdir_files} :
             IF run = "raised"
             THEN lkce_outdir_files' = written /\ clean_run' = NotCleaned("clean_up")
             ELSE clean_up(written)
    /\ UNCHANGED <<conf_max_out_files, rest_lkce_reports>>

(* oled lkce clean [--all], answered val *)
LkceClean ==
    /\ \E all \in BOOLEAN, val \in {<<"y", "e", "s">>, <<"n", "o">>, <<>>}, report_files \in ReportFiles(lkce_outdir_files) :
          IF ~Contains(val, <<"y", "e", "s">>) THEN clean_run' = NotCleaned("clean") /\ UNCHANGED lkce_outdir_files
          ELSE IF all THEN RemoveFiles("clean --all", 0, lkce_outdir_files, SeqSet(report_files))
          ELSE IF ~int(conf_max_out_files).ok THEN clean_run' = NotCleaned("clean") /\ UNCHANGED lkce_outdir_files
          ELSE RemoveFiles("clean", int(conf_max_out_files).value, lkce_outdir_files, SeqSet(SliceFrom(sort(lkce_outdir_files, report_files), int(conf_max_out_files).value)))
    /\ UNCHANGED <<conf_max_out_files, rest_lkce_reports>>

(* oled lkce configure --max_out_files=value, LKCE being configured *)
MaxOutFilesValues == {<<"0">>, <<"1">>, <<"2">>, <<"-", "1">>, <<" ", "1">>, <<"m", "a", "n", "y">>}
LkceConfigureMaxOutFiles ==
    /\ \E value \in MaxOutFilesValues : conf_max_out_files' = (IF Strip(value) # <<>> THEN Strip(value) ELSE conf_max_out_files)
    /\ clean_run' = NoRun
    /\ UNCHANGED <<lkce_outdir_files, rest_lkce_reports>>

(* another file comes to lkce_outdir, or the ctime of one changes *)
OutdirChanges ==
    /\ \E name \in OutdirNames, t \in Ctimes : lkce_outdir_files' = (name :> t) @@ lkce_outdir_files
    /\ clean_run' = NoRun
    /\ UNCHANGED <<conf_max_out_files, rest_lkce_reports>>

LkceCleanNext ==
    \/ KdumpReportMain
    \/ LkceClean
    \/ LkceConfigureMaxOutFiles
    \/ OutdirChanges

LkceCleanSpec == Init /\ [][LkceCleanNext]_vars

(* the report files of a directory *)
Reports(dir) == GlobMatches(dir, <<"c", "r", "a", "s", "h">>) \cup GlobMatches(dir, <<"c", "o", "r", "e", "l", "e", "n", "s">>)
CleanedUp == clean_run.cmd \in {"clean_up", "clean"} /\ clean_run.cleaned

(* C16 as stated: after kdump_report.clean_up, and after a confirmed lkce  *)
(* clean without --all, at most max_out_files report files remain and      *)
(* every removed file is older by ctime than every report file kept        *)
C16_AsStated ==
    CleanedUp =>
        /\ Cardinality(Reports(clean_run.after)) <= clean_run.max_files
        /\ \A removed \in DOMAIN clean_run.before \ DOMAIN clean_run.after, kept \in Reports(clean_run.after) :
              clean_run.before[removed] < clean_run.before[kept]

(* C16, amended: the clean-up removes report files only and no file it did *)
(* not select; every file it selects for removal is no newer by ctime than *)
(* every report file it does not select; when max_out_files is not         *)
(* negative it leaves at most max_out_files report files unselected, so    *)
(* that at most max_out_files remain when no os.remove fails               *)
C16_CleanUp ==
    CleanedUp =>
        /\ clean_run.selected \subseteq Reports(clean_run.before)
        /\ DOMAIN clean_run.after = DOMAIN clean_run.before \ (clean_run.selected \ clean_run.failed)
        /\ \A name \in DOMAIN clean_run.after : clean_run.after[name] = clean_run.before[name]
        /\ \A selected \in clean_run.selected, kept \in Reports(clean_run.before) \ clean_run.selected :
              clean_run.before[selected] <= clean_run.before[kept]
        /\ clean_run.max_files >= 0 => Cardinality(Reports(clean_run.before) \ clean_run.selected) <= clean_run.max_files
        /\ (clean_run.max_files >= 0 /\ clean_run.failed = {}) => Cardinality(Reports(clean_run.after)) <= clean_run.max_files

(* a clean-up that removed an older report and kept a newer one, with a    *)
(* file that is no report left alone                                       *)
C16_Witness ==
    /\ CleanedUp
    /\ clean_run.max_files = 1
    /\ clean_run.failed = {}
    /\ Cardinality(clean_run.selected) = 2
    /\ Cardinality(Reports(clean_run.after)) = 1
    /\ DOMAIN clean_run.after # Reports(clean_run.after)
    /\ \E selected \in clean_run.selected, kept \in Reports(clean_run.after) : clean_run.before[selected] < clean_run.before[kept]


----------------------------------------------------------------------------
(* oomwatch.py --kill: kill_high_memuser                                   *)

(* oomwatch --kill asked for: conf["monitored_process"] is read; seen is    *)
(* kept of the search: the name of every running process, "-" for the rest *)
MonitoredLists == {<<"">>, <<"java">>, <<"java", "python3">>}
InList(name, proc_names) == \E i \in 1..Len(proc_names) : proc_names[i] = name
OomStart ==
    /\ ow.pc \in {"none", "done"}
    /\ \E proc_names \in MonitoredLists : ow' = [OwFresh EXCEPT !.pc = "find", !.proc_names = proc_names]
    /\ UNCHANGED <<procs, rest_oomwatch>>

(* find_processes_to_kill: psutil.process_iter in the order of the pids *)
IsNobody(pid) == FALSE
IsSelf(pid) == pid = OomPid
RECURSIVE Scan(_, _)
Scan(proc_names, pid) ==
    IF pid > MaxPid THEN <<>>
    ELSE IF procs[pid].state # "running" \/ IsSelf(pid) \/ ~InList(procs[pid].name, proc_names) THEN Scan(proc_names, pid + 1)
    ELSE <<pid>> \o Scan(proc_names, pid + 1)
find_processes_to_kill(proc_names) == Scan(proc_names, 1)
OomFind ==
    /\ ow.pc = "find"
    /\ \E processes_to_kill \in {find_processes_to_kill(ow.proc_names)} :
          ow' = [ow EXCEPT !.pc = IF processes_to_kill # <<>> THEN "max" ELSE "done", !.processes = processes_to_kill, !.seen = [pid \in OomPids |-> IF procs[pid].state = "running" THEN procs[pid].name ELSE "-"]]
    /\ UNCHANGED <<procs, rest_oomwatch>>

(* max(processes_to_kill, key=lambda p: p.memory_info().rss): the first of *)
(* those with the highest RSS; NoSuchProcess for a process that is gone    *)
max(processes, rss) == processes[CHOOSE i \in 1..Len(processes) : (\A j \in 1..Len(processes) : rss[j] <= rss[i]) /\ (\A j \in 1..(i - 1) : rss[j] < rss[i])]
OomMax ==
    /\ ow.pc = "max"
    /\ IF \E i \in 1..Len(ow.processes) : procs[ow.processes[i]].state # "running"
       THEN ow' = [ow EXCEPT !.pc = "done", !.raised = TRUE]
       ELSE \E rss \in {[i \in 1..Len(ow.processes) |-> procs[ow.processes[i]].rss]} :
               ow' = [ow EXCEPT !.pc = "verify", !.rss = rss, !.target = max(ow.processes, rss)]
    /\ UNCHANGED <<procs, rest_oomwatch>>

(* subprocess.run([VERIFY_SCR, pid, name, rss]): its return code, or an    *)
(* exception (-1)                                                          *)
OomVerify ==
    /\ ow.pc = "verify"
    /\ \E ret \in {0, 1, -1} : ow' = [ow EXCEPT !.pc = IF ret = 0 THEN "kill" ELSE "done", !.ret = ret, !.verified = IF ret = -1 THEN @ ELSE Append(@, ow.target)]
    /\ UNCHANGED <<procs, rest_oomwatch>>

(* subprocess.run(["/usr/bin/kill", "-9", str(target_pid)], check=True) *)
OomKill ==
    /\ ow.pc = "kill"
    /\ ow' = [ow EXCEPT !.pc = "done", !.sent = Append(@, ow.target)]
    /\ procs' = [procs EXCEPT ![ow.target] = Exited]
    /\ UNCHANGED rest_oomwatch

(* the system meanwhile: a process starts, ends, or its RSS changes *)
ProcNames == {"java", "python3", ""}
ProcStarts ==
    /\ \E pid \in OomPids, name \in ProcNames, rss \in 1..MaxRss :
          /\ procs[pid].state = "none"
          /\ procs' = [procs EXCEPT ![pid] = [state |-> "running", name |-> name, rss |-> rss]]
    /\ UNCHANGED <<ow, rest_oomwatch>>
ProcExits ==
    /\ \E pid \in OomPids \ {OomPid} :
          /\ procs[pid].state = "running"
          /\ procs' = [procs EXCEPT ![pid] = Exited]
    /\ UNCHANGED <<ow, rest_oomwatch>>
RssChanges ==
    /\ \E pid \in OomPids, rss \in 1..MaxRss :
          /\ procs[pid].state = "running"
          /\ procs' = [procs EXCEPT ![pid].rss = rss]
    /\ UNCHANGED <<ow, rest_oomwatch>>

OomwatchNext ==
    \/ OomStart
    \/ OomFind
    \/ OomMax
    \/ OomVerify
    \/ OomKill
    \/ ProcStarts
    \/ ProcExits
    \/ RssChanges

OomwatchSpec == Init /\ [][OomwatchNext]_vars

(* C17: kill_high_memuser sends kill -9 to at most one process per         *)
(* invocation; that process is not oomwatch itself, was running under a    *)
(* name of the monitored list when the processes were searched, had the    *)
(* highest RSS of all such processes when max() measured them, and         *)
(* verify_kill.sh has exited with status 0 for it before                   *)
C17_KillOne ==
    /\ Len(ow.sent) <= 1
    /\ \A k \in 1..Len(ow.sent) :
          /\ ow.sent[k] # OomPid
          /\ InList(ow.seen[ow.sent[k]], ow.proc_names)
          /\ \E i \in 1..Len(ow.processes) :
                /\ ow.processes[i] = ow.sent[k]
                /\ \A pid \in OomPids \ {OomPid} :
                      InList(ow.seen[pid], ow.proc_names) =>
                          \E j \in 1..Len(ow.processes) : ow.processes[j] = pid /\ ow.rss[j] <= ow.rss[i]
          /\ ow.ret = 0
          /\ ow.verified = <<ow.sent[k]>>

(* a kill sent where oomwatch itself runs under a monitored name and two   *)
(* other monitored processes of different RSS were found                   *)
C17_Witness ==
    /\ Len(ow.sent) = 1
    /\ InList(ow.seen[OomPid], ow.proc_names)
    /\ Len(ow.processes) >= 2
    /\ \E i, j \in 1..Len(ow.processes) : ow.rss[j] < ow.rss[i]


(* C18: when validate_rule returns True for an "or" rule, one of its       *)
(* alternatives having passed, nothing that the alternatives which failed  *)
(* before it recorded makes a plugin report the rule as failed: fatal_err  *)
(* is empty and no failure is returned, so that "passed and not fatal_err" *)
(* holds                                                                   *)
C18_OrPassedClean ==
    ( /\ op = "validate_rule"
      /\ args.rule.ty = "dict"
      /\ HasKey(args.rule, "or")
      /\ ~HasKey(args.rule, "and")
      /\ ~result.raised
      /\ result.passed )
    => Verdict(result) /\ result.failures = <<>>


----------------------------------------------------------------------------
(* scripts.py: run_startup_enabled and run_startup_scripts, one step for   *)
(* each turn of their loops                                                *)

(* run_startup_enabled up to the call of run_startup_scripts *)
StartupBegin ==
    /\ st.pc \in {"none", "returned", "exited"}
    /\ \E scripts \in {enabled_scripts(USER_STARTUP_CONFIG_FILE)} :
          /\ Len(scripts) <= MaxScripts
          /\ st' = [StFresh EXCEPT !.pc = IF scripts = <<>> THEN "returned" ELSE "spawn", !.scripts = scripts]
    /\ children' = [pid \in ChildPids |-> "none"]
    /\ UNCHANGED rest_startup

(* subprocess: Popen() begins with _cleanup(), which polls the children of *)
(* the Popen objects in _active and reaps those that have terminated; when *)
(* the last reference to a Popen object goes, __del__ polls its child and  *)
(* puts the object in _active if the child is still running                *)
StillActive(active, kids) == {pid \in active : kids[pid] # "zombie"}
Polled(active, kids) == [pid \in ChildPids |-> IF pid \in active /\ kids[pid] = "zombie" THEN "reaped" ELSE kids[pid]]

(* one turn of "for path in scripts": makedirs or open raises, Popen       *)
(* raises, or the script is spawned and proc is bound to it                *)
StartupSpawn ==
    /\ st.pc = "spawn"
    /\ \E outcome \in {"makedirs", "Popen", "spawned"} :
          \E next \in {[st EXCEPT !.i = @ + 1, !.pc = IF st.i = Len(st.scripts) THEN "wait" ELSE "spawn"]} :
             IF outcome = "makedirs" THEN st' = next /\ UNCHANGED children
             ELSE IF outcome = "Popen"
             THEN /\ st' = [next EXCEPT !.active = StillActive(st.active, children)]
                  /\ children' = Polled(st.active, children)
             ELSE /\ st' = [next EXCEPT !.active = StillActive(st.active \cup (IF st.proc = 0 THEN {} ELSE {st.proc}), children),
                                        !.proc = st.i, !.pids = @ \cup {st.i}, !.spawned = @ \cup {st.i}]
                  /\ children' = [Polled(st.active \cup (IF st.proc = 0 THEN {} ELSE {st.proc}), children) EXCEPT ![st.i] = "running"]
    /\ UNCHANGED rest_startup

(* one turn of "while pids": os.waitpid(-1, 0) returns a terminated child  *)
(* whose status is logged, blocks while children run and none has          *)
(* terminated, and raises ChildProcessError when there is no child left    *)
NeverChildProcessError(kids) == FALSE
ChildProcessError(kids) == \A pid \in ChildPids : kids[pid] \notin {"running", "zombie"}
StartupWait ==
    /\ st.pc = "wait"
    /\ IF st.pids = {} THEN st' = [st EXCEPT !.pc = "returned"] /\ UNCHANGED children
       ELSE IF ChildProcessError(children) THEN st' = [st EXCEPT !.pc = "exited", !.waited = 1] /\ UNCHANGED children
       ELSE \E pid \in ChildPids :
               /\ children[pid] = "zombie"
               /\ children' = [children EXCEPT ![pid] = "reaped"]
               /\ st' = [st EXCEPT !.waited = 1, !.pids = @ \ {pid}, !.logged[pid] = IF pid \in st.pids THEN @ + 1 ELSE @]
    /\ UNCHANGED rest_startup

(* a script terminates *)
ScriptTerminates ==
    /\ \E pid \in ChildPids :
          /\ children[pid] = "running"
          /\ children' = [children EXCEPT ![pid] = "zombie"]
    /\ UNCHANGED <<st, rest_startup>>

(* the user configuration is made before run-startup-enabled is started;   *)
(* it is read once, in StartupBegin                                        *)
StartupNext ==
    \/ st.pc = "none" /\ ScriptsEnable
    \/ st.pc = "none" /\ ScriptsDisable
    \/ st.pc = "none" /\ ScriptsReset
    \/ StartupBegin
    \/ StartupSpawn
    \/ StartupWait
    \/ ScriptTerminates

(* the process of run-startup-enabled keeps running: its loops take their  *)
(* next turn whenever they can                                             *)
StartupSpec == Init /\ [][StartupNext]_vars /\ WF_vars(StartupSpawn) /\ WF_vars(StartupWait)

(* every script of the list has had its turn before os.waitpid is called;  *)
(* when run_startup_scripts has returned every script it spawned has       *)
(* terminated and its status was logged once; no status is logged twice    *)
SpawnedBeforeWaiting == st.waited > 0 => st.i > Len(st.scripts)
ReturnedAfterAll == (st.pc = "returned" /\ st.scripts # <<>>) => \A pid \in st.spawned : children[pid] = "reaped" /\ st.logged[pid] = 1
LoggedOnce == \A pid \in ChildPids : st.logged[pid] <= 1 /\ (st.logged[pid] = 1 => pid \in st.spawned /\ children[pid] = "reaped")
AllTerminated == st.pc = "wait" /\ \A pid \in st.spawned : children[pid] # "running"
StartupOver == st.pc \in {"returned", "exited"}

(* C21: run_startup_scripts spawns every script of its list before it      *)
(* waits for any of them, returns only after every script it spawned has   *)
(* terminated and has had its exit status logged exactly once, and once    *)
(* all spawned scripts have terminated it does not wait forever: it        *)
(* returns or exits                                                        *)
C21_SpawnWaitReturn == [](SpawnedBeforeWaiting /\ ReturnedAfterAll /\ LoggedOnce) /\ (AllTerminated ~> StartupOver)

(* run_startup_scripts has returned after three scripts were spawned, one  *)
(* of them dropped into _active, and each status was logged                *)
C21_Witness ==
    /\ st.pc = "returned"
    /\ st.spawned = {1, 2, 3}
    /\ st.active # {}
    /\ \A pid \in st.spawned : st.logged[pid] = 1

(* the same list of scripts, but two were reaped in the background: the    *)
(* wait ended with ChildProcessError and their status was never logged     *)
C21_ReapedInBackground ==
    /\ st.pc = "exited"
    /\ st.spawned = {1, 2, 3}
    /\ Cardinality({pid \in st.spawned : st.logged[pid] = 0}) = 2


(* compare(val, {op: expected}) for the i-th operator of a rule-set, on    *)
(* the value compare was called with                                       *)
AloneOk(i) ==
    Only({ ~r.raised /\ r.ok :
           r \in {compare(args.val, JDict(<<args.rule.items[i]>>), args.fatal_err,
                          args.plugin_ops, global_vars, HostFiles)} })
Reversed(items) == [i \in 1..Len(items) |-> items[Len(items) + 1 - i]]

(* C22: for a rule-set with several operators compare(val, rule) is the    *)
(* conjunction, over its operators, of compare(val, {op: expected}) on the *)
(* original value, and it is the same with the operators in the opposite   *)
(* order                                                                   *)
C22_CompareConjunction ==
    ( /\ op = "compare"
      /\ args.rule.ty = "dict"
      /\ Len(args.rule.items) >= 2
      /\ ~result.first.raised )
    => /\ result.first.ok <=> \A i \in 1..Len(args.rule.items) : AloneOk(i)
       /\ \A r \in {compare(args.val, JDict(Reversed(args.rule.items)), args.fatal_err,
                            args.plugin_ops, global_vars, HostFiles)} :
             ~r.raised => (r.ok <=> result.first.ok)

====
